---- MODULE Spec2Model ----
(***************************************************************************)
(* Model of the execution slot sequencer                                   *)
(* (massa-execution-worker/src/slot_sequencer.rs).                         *)
(*                                                                         *)
(* The sequencer is a single-owner state machine: every operation runs to  *)
(* completion, so each public method is one action.  A panic of the        *)
(* sequencer ends the process: it is modelled by status = "panic" with the *)
(* fields left as they were before the failing call.                       *)
(***************************************************************************)
EXTENDS Integers, Sequences, FiniteSets, TLC

(***************************************************************************)
(* Bounds of the model.                                                    *)
(***************************************************************************)
\* Slots range over periods 0..MaxPeriod (inputs, cursors and the clock).
MaxPeriod == 2
\* Number of update calls of one run of the model.
MaxUpdates == 3
\* Number of update calls of one run with the wider inputs.
MaxRecordedUpdates == 2

(***************************************************************************)
(* ExecutionConfig, as read by the sequencer.                              *)
(***************************************************************************)
thread_count == 2
last_start_period == 0
\* t0 in clock units; one slot lasts t0 \div thread_count units.
t0 == 2
genesis_timestamp == 1
cursor_delay == 1

\* Block ids; metadata is opaque and travels with its block id.
\* ExecutionConfig, as the record the sequencer keeps in self.config.
Config ==
    [thread_count |-> thread_count, t0 |-> t0,
     genesis_timestamp |-> genesis_timestamp, cursor_delay |-> cursor_delay,
     last_start_period |-> last_start_period]

\* ProtocolConfig of the operation propagation thread, in clock ticks and
\* numbers of operations.
operation_announcement_interval == 1
operation_announcement_buffer_capacity == 2
max_operations_propagation_time == 1
max_ops_kept_for_propagation == 3
max_operations_per_message == 1
max_node_known_ops_size == 2

Blocks == {"B1"}
\* Option::None for an Option<BlockId> / Option<(BlockId, metadata)>.
NoBlock == "None"

(***************************************************************************)
(* Slot arithmetic (massa-models slot.rs and timeslots.rs).                *)
(***************************************************************************)
Slot(p, t) == [period |-> p, thread |-> t]

AllSlots == {Slot(p, t) : p \in 0..MaxPeriod, t \in 0..(thread_count - 1)}

\* Total order of slots: by period, then by thread.
SlotLT(a, b) ==
    \/ a.period < b.period
    \/ a.period = b.period /\ a.thread < b.thread

SlotLE(a, b) == a = b \/ SlotLT(a, b)

SlotMaxOf(a, b) == IF SlotLT(a, b) THEN b ELSE a

SlotMinOf(a, b) == IF SlotLT(b, a) THEN b ELSE a

\* Iterator max / min over a non-empty set of slots.
SlotSetMax(S) == CHOOSE m \in S : \A x \in S : SlotLE(x, m)

SlotSetMin(S) == CHOOSE m \in S : \A x \in S : SlotLE(m, x)

get_next_slot(s) ==
    IF s.thread + 1 < thread_count
    THEN Slot(s.period, s.thread + 1)
    ELSE Slot(s.period + 1, 0)

\* get_prev_slot is an Err on the very first slot.
prev_slot_is_err(s) == s.period = 0 /\ s.thread = 0

get_prev_slot(s) ==
    IF s.thread > 0
    THEN Slot(s.period, s.thread - 1)
    ELSE Slot(s.period - 1, thread_count - 1)

\* Result::Err of slots_since.
SlotsSinceErr == -1

\* a.slots_since(s): number of slots from s to a, an Err when s is after a.
slots_since(a, s) ==
    IF SlotLT(a, s)
    THEN SlotsSinceErr
    ELSE (a.period - s.period) * thread_count + a.thread - s.thread

\* A slip in the cross-thread test: an Err counts as a full round.
unwrap_or_round(r) == IF r = SlotsSinceErr THEN thread_count ELSE r

\* Result<u64>::unwrap_or_default()
unwrap_or_default(r) == IF r = SlotsSinceErr THEN 0 ELSE r

\* get_latest_block_slot_at_timestamp: None (<<>>) before genesis.
get_latest_block_slot_at_timestamp(ts) ==
    IF ts < genesis_timestamp
    THEN <<>>
    ELSE LET since == ts - genesis_timestamp
         IN  <<Slot(since \div t0, (since % t0) \div (t0 \div thread_count))>>

\* get_block_slot_timestamp
get_block_slot_timestamp(s) ==
    genesis_timestamp + s.period * t0 + s.thread * (t0 \div thread_count)

\* MassaTime::saturating_sub
saturating_sub(a, b) == IF a < b THEN 0 ELSE a - b

\* First clock reading of the model: the shifted clock is before genesis.
StartNow == saturating_sub(genesis_timestamp + cursor_delay, 1)

\* Last clock reading of the model: the time cursor stays within AllSlots.
MaxNow == get_block_slot_timestamp(Slot(MaxPeriod, thread_count - 1)) + cursor_delay

(***************************************************************************)
(* State.                                                                  *)
(***************************************************************************)
VARIABLES
    sequence,                        \* VecDeque<SlotInfo>, oldest at index 1
    latest_consensus_final_slots,    \* thread -> Slot
    latest_execution_final_slot,
    latest_executed_final_slot,
    latest_executed_candidate_slot,
    now,                             \* MassaTime::now()
    status,                          \* "ok", or "panic" once a call has panicked
    last_call,                       \* history: the last operation and its outcome
    executed,                        \* history: slot -> what the callback last got,
                                     \* kept for the standing speculative executions
    n_updates,                       \* number of update calls made so far
    last_update,                     \* history: the arguments of the call that
                                     \* was the last step, where they are kept
    final_blocks,                    \* history: slot -> the block ids that update
                                     \* calls gave for it in new_consensus_final_blocks
    config,                          \* SlotSequencer::config
    propagation_thread,              \* PropagationThread: its fields, and whether
                                     \* run is still in its loop
    cache,                           \* SharedOperationCache
    active_connections,              \* the peers that are connected
    instant,                         \* std::time::Instant::now()
    announcements,                   \* history: the send_to_peer calls of the last
                                     \* step of the propagation thread
    consensus_state,                 \* ConsensusState
    tick_outcome,                    \* history: the last slot_tick call
    codec_call,                      \* history: the last serialize and deserialize
    address_call                     \* history: the last Address::from_str

seqvars == <<sequence, latest_consensus_final_slots, latest_execution_final_slot,
             latest_executed_final_slot, latest_executed_candidate_slot>>

\* The operation propagation thread and what it shares.
propvars == <<propagation_thread, cache, active_connections, instant,
              announcements>>

\* The consensus state.
consvars == <<consensus_state, tick_outcome>>

\* The calls of the message codecs and of the address parser.
purevars == <<codec_call, address_call>>

\* What the calls of the sequencer leave alone.
elsewhere == <<config, propvars, consvars, purevars>>

\* The sequencer and its histories.
sequencer == <<seqvars, now, status, last_call, executed, n_updates,
               last_update, final_blocks, config>>

vars == <<sequence, latest_consensus_final_slots, latest_execution_final_slot,
          latest_executed_final_slot, latest_executed_candidate_slot,
          now, status, last_call, executed, n_updates,
          last_update, final_blocks, config,
          propagation_thread, cache, active_connections, instant,
          announcements, consensus_state, tick_outcome,
          codec_call, address_call>>

\* start_propagation_thread: nothing stored, nothing batched, the first
\* batch deadline one interval away; no peer is connected.
PropagationStart ==
    /\ propagation_thread =
           [internal_receiver |-> [queue |-> <<>>, disconnected |-> FALSE, sent |-> 0],
            stored_for_propagation |-> <<>>,
            op_storage |-> {},
            next_batch |-> {},
            batch_deadline |-> operation_announcement_interval,
            running |-> TRUE]
    /\ cache = [checked_operations |-> {}, ops_known_by_peer |-> <<>>]
    /\ active_connections = {}
    /\ instant = 0
    /\ announcements = <<>>

\* A consensus state with no block.
ConsensusStart ==
    /\ consensus_state = [blocks_state |-> <<>>, waiting_for_slot_blocks |-> {}]
    /\ tick_outcome = <<>>

\* No codec and no parser has been called.
PureStart ==
    /\ codec_call = <<>>
    /\ address_call = <<>>

SlotInfo(s, cf, ef, c) ==
    [slot |-> s, consensus_final |-> cf, execution_final |-> ef, content |-> c]

\* SlotInfo::get_block_id (the content is the block id, None for a miss)
get_block_id(info) == info.content

(***************************************************************************)
(* HashMap helpers.                                                        *)
(***************************************************************************)
EmptyMap == [x \in {} |-> NoBlock]

\* HashMap::remove: the value taken out (None when absent) ...
MapTake(m, k) == IF k \in DOMAIN m THEN m[k] ELSE NoBlock

\* ... and the map that is left.
MapRemove(m, k) == [x \in DOMAIN m \ {k} |-> m[x]]

\* Option<HashMap>: None, or Some(map).
NoneMap == [some |-> FALSE, map |-> EmptyMap]

SomeMap(m) == [some |-> TRUE, map |-> m]

\* Option::unwrap_or_default
MapUnwrapOrDefault(o) == IF o.some THEN o.map ELSE EmptyMap

\* The per-thread watermarks after the "latest CSS-final slots" loop.
UpdateConsensusFinalSlots(lcfs, finals) ==
    [t \in DOMAIN lcfs |->
        LET later == {s \in DOMAIN finals :
                         s.thread = t /\ s.period > lcfs[t].period}
        IN  IF later = {} THEN lcfs[t] ELSE SlotSetMax(later)]

\* A slip in the metadata lookup: a missing entry is let through.
TakeMetadataOrDefault(b, meta) == [meta |-> meta \ {b}, panic |-> FALSE]

\* new_blocks_metadata.remove(&b_id).expect(..) under Option::map:
\* the metadata left, and whether the expect panicked.
TakeMetadata(b, meta) ==
    IF b = NoBlock
    THEN [meta |-> meta, panic |-> FALSE]
    ELSE IF b \in meta
         THEN [meta |-> meta \ {b}, panic |-> FALSE]
         ELSE [meta |-> meta, panic |-> TRUE]

(***************************************************************************)
(* get_time_cursor                                                         *)
(***************************************************************************)
get_time_cursor(clock) ==
    LET shifted_now == saturating_sub(clock, cursor_delay)
        latest == get_latest_block_slot_at_timestamp(shifted_now)
    IN  IF latest = <<>> THEN Slot(last_start_period, 0) ELSE latest[1]

(***************************************************************************)
(* get_slot_index / get_slot on a non-empty sequence.                      *)
(***************************************************************************)
\* 1-based index of the slot in the sequence, 0 for None.
get_slot_index(seq, s) ==
    LET first_slot == seq[1].slot
    IN  IF SlotLT(s, first_slot)
        THEN 0
        ELSE LET index == slots_since(s, first_slot)
             IN  IF index >= Len(seq) THEN 0 ELSE index + 1

\* <<>> for None, <<info>> for Some(info).
get_slot(seq, s) ==
    LET i == get_slot_index(seq, s)
    IN  IF i = 0 THEN <<>> ELSE <<seq[i]>>

(***************************************************************************)
(* cleanup_sequence                                                        *)
(***************************************************************************)
\* A slip in cleanup_sequence: the candidate cursor is left out of the min.
min_useful_slot_without_candidate(lcfs, lefs, lxfs, lxcs) ==
    SlotMinOf(SlotMinOf(SlotSetMin({lcfs[t] : t \in DOMAIN lcfs}), lefs), lxfs)

min_useful_slot(lcfs, lefs, lxfs, lxcs) ==
    SlotMinOf(
        SlotMinOf(SlotSetMin({lcfs[t] : t \in DOMAIN lcfs}), lefs),
        SlotMinOf(lxfs, lxcs))

RECURSIVE PopFrontWhileBefore(_, _)
PopFrontWhileBefore(seq, m) ==
    IF seq = <<>> \/ ~SlotLT(seq[1].slot, m)
    THEN seq
    ELSE PopFrontWhileBefore(Tail(seq), m)

\* A slip in cleanup_sequence: nothing is popped.
cleanup_sequence_keeps_all(seq, lcfs, lefs, lxfs, lxcs) == seq

cleanup_sequence(seq, lcfs, lefs, lxfs, lxcs) ==
    PopFrontWhileBefore(seq, min_useful_slot(lcfs, lefs, lxfs, lxcs))

(***************************************************************************)
(* sequence_build_step: one slot of the rebuilt sequence.                  *)
(* prev_item is <<>> (None) or <<info>>.  The result holds the SlotInfo,   *)
(* the history-overwrite flag, the metadata map that is left and whether   *)
(* an expect(..) on missing metadata panicked.                             *)
(***************************************************************************)
BuildResult(item, ow, meta, panic) ==
    [item |-> item, overwrites |-> ow, meta |-> meta, panic |-> panic]

\* A slip in the recycling of a CSS-final slot: the flag is written to the
\* wrong field.
recycle_final_wrong_field(prev_slot_info, in_execution_finality, meta) ==
    BuildResult([prev_slot_info EXCEPT !.consensus_final = in_execution_finality],
                FALSE, meta, FALSE)

\* A slip in the recycling of a CSS-final slot: it is always marked SCE-final.
recycle_final_always_sce(prev_slot_info, in_execution_finality, meta) ==
    BuildResult([prev_slot_info EXCEPT !.execution_final = TRUE],
                FALSE, meta, FALSE)

\* The slot was CSS-final: it is recycled.
recycle_final(prev_slot_info, in_execution_finality, meta) ==
    BuildResult([prev_slot_info EXCEPT !.execution_final = in_execution_finality],
                FALSE, meta, FALSE)

\* The content of a slot is overwritten by block b (None for a miss), whose
\* metadata is taken out of the metadata map (m is the outcome of that).
overwrite_content(info, b, m) ==
    BuildResult([info EXCEPT !.content = b], TRUE, m.meta, m.panic)

\* A slip in the finalisation of a slot: the content it had is kept.
finalize_existing_keeps_content(prev_slot_info, new_consensus_final_block, in_execution_finality, meta) ==
    BuildResult([prev_slot_info EXCEPT
                     !.consensus_final = TRUE,
                     !.execution_final = in_execution_finality],
                FALSE, meta, FALSE)

\* The slot was not CSS-final and becomes CSS-final.
finalize_existing(prev_slot_info, new_consensus_final_block, in_execution_finality, meta) ==
    IF get_block_id(prev_slot_info) = new_consensus_final_block
    THEN BuildResult([prev_slot_info EXCEPT
                          !.consensus_final = TRUE,
                          !.execution_final = in_execution_finality],
                     FALSE, meta, FALSE)
    ELSE overwrite_content([prev_slot_info EXCEPT
                                !.consensus_final = TRUE,
                                !.execution_final = in_execution_finality],
                           new_consensus_final_block,
                           TakeMetadata(new_consensus_final_block, meta))

\* The slot stays speculative: the new blockclique, if any, decides.
process_blockclique(prev_slot_info, blockclique_updated, new_blockclique_block, meta) ==
    IF ~blockclique_updated
    THEN BuildResult(prev_slot_info, FALSE, meta, FALSE)
    ELSE IF new_blockclique_block = get_block_id(prev_slot_info)
    THEN BuildResult(prev_slot_info, FALSE, meta, FALSE)
    ELSE overwrite_content(prev_slot_info, new_blockclique_block,
                           TakeMetadata(new_blockclique_block, meta))

\* The slot was not in the old sequence: info is the new SlotInfo, with the
\* block found for it (None for a miss); a block there is a mismatch.
new_slot(info, m) ==
    BuildResult(info, info.content # NoBlock, m.meta, m.panic)

sequence_build_step(slot, prev_item, new_consensus_final_, new_consensus_final_block, blockclique_updated, new_blockclique_block, new_blocks_metadata, in_execution_finality) ==
    IF prev_item # <<>>
    THEN IF prev_item[1].consensus_final
         THEN recycle_final(prev_item[1], in_execution_finality,
                            new_blocks_metadata)
         ELSE IF new_consensus_final_
         THEN finalize_existing(prev_item[1], new_consensus_final_block,
                                in_execution_finality, new_blocks_metadata)
         ELSE process_blockclique(prev_item[1], blockclique_updated,
                                  new_blockclique_block, new_blocks_metadata)
    ELSE IF new_consensus_final_
         THEN new_slot(SlotInfo(slot, TRUE, in_execution_finality,
                                new_consensus_final_block),
                       TakeMetadata(new_consensus_final_block, new_blocks_metadata))
         ELSE new_slot(SlotInfo(slot, FALSE, FALSE, new_blockclique_block),
                       TakeMetadata(new_blockclique_block, new_blocks_metadata))

(***************************************************************************)
(* init: the first update that carries CSS-final blocks.                   *)
(***************************************************************************)
\* One iteration of the "while slot <= max_slot" loop of init, given the
\* block found for the slot (b_id) and the outcome m of taking its metadata.
init_step(slot, lcfs, lefs, st, from_final, b_id, m) ==
    [seq |-> Append(st.seq,
                    SlotInfo(slot,
                             SlotLE(slot, lcfs[slot.thread]),   \* consensus_final
                             SlotLE(slot, lefs),                \* execution_final
                             b_id)),
     finals |-> MapRemove(st.finals, slot),
     \* or_else: the blockclique is only looked at when there is no final block
     blockclique |-> IF from_final # NoBlock
                     THEN st.blockclique
                     ELSE MapRemove(st.blockclique, slot),
     meta |-> m.meta,
     panic |-> m.panic]

init_content(st, slot, from_final) ==
    IF from_final # NoBlock THEN from_final ELSE MapTake(st.blockclique, slot)

init_step_content(slot, lcfs, lefs, st, from_final, b_id) ==
    init_step(slot, lcfs, lefs, st, from_final, b_id, TakeMetadata(b_id, st.meta))

init_step_final(slot, lcfs, lefs, st, from_final) ==
    init_step_content(slot, lcfs, lefs, st, from_final,
                      init_content(st, slot, from_final))

RECURSIVE init_loop(_, _, _, _, _)
init_loop(slot, max_slot, lcfs, lefs, st) ==
    IF ~SlotLE(slot, max_slot) \/ st.panic
    THEN st
    ELSE init_loop(get_next_slot(slot), max_slot, lcfs, lefs,
                   init_step_final(slot, lcfs, lefs, st, MapTake(st.finals, slot)))

\* The end of init: the residue checks and the cleanup.
init_finish(lcfs, lefs, lxfs, lxcs, st) ==
    [panic |-> \/ st.panic
               \/ DOMAIN st.finals # {}
               \/ DOMAIN st.blockclique # {},
     sequence |-> cleanup_sequence(st.seq, lcfs, lefs, lxfs, lxcs),
     lcfs |-> lcfs]

init_max_slot(lcfs, initial_blockclique, clock) ==
    SlotMaxOf(SlotMaxOf(SlotSetMax({lcfs[t] : t \in DOMAIN lcfs}),
                        IF DOMAIN initial_blockclique = {}
                        THEN Slot(last_start_period, 0)
                        ELSE SlotSetMax(DOMAIN initial_blockclique)),
              get_time_cursor(clock))

init_build(initial_consensus_final_blocks, initial_blockclique, blocks_metadata, lcfs, lefs, lxfs, lxcs, clock) ==
    init_finish(lcfs, lefs, lxfs, lxcs,
        init_loop(SlotSetMin(DOMAIN initial_consensus_final_blocks),
                  init_max_slot(lcfs, initial_blockclique, clock),
                  lcfs, lefs,
                  [seq |-> <<>>,
                   finals |-> initial_consensus_final_blocks,
                   blockclique |-> initial_blockclique,
                   meta |-> blocks_metadata,
                   panic |-> FALSE]))

\* The sequencer after init, as [panic, sequence, lcfs]; the cursors are not
\* changed by init.
init(initial_consensus_final_blocks, initial_blockclique, blocks_metadata, lcfs0, lefs, lxfs, lxcs, clock) ==
    init_build(initial_consensus_final_blocks, initial_blockclique, blocks_metadata,
               UpdateConsensusFinalSlots(lcfs0, initial_consensus_final_blocks),
               lefs, lxfs, lxcs, clock)

(***************************************************************************)
(* update, incremental path: the rebuild walk.                             *)
(***************************************************************************)
\* the cross-thread test of line 300: some watermark is a full round later
any_full_round_later(lcfs, slot) ==
    \E t \in DOMAIN lcfs :
        unwrap_or_default(slots_since(lcfs[t], slot)) >= thread_count

\* A slip in the per-thread test: the watermark itself is not final.
new_consensus_final_before_watermark(lcfs, slot) ==
    SlotLT(slot, lcfs[slot.thread]) \/ any_full_round_later(lcfs, slot)

new_consensus_final(lcfs, slot) ==
    SlotLE(slot, lcfs[slot.thread]) \/ any_full_round_later(lcfs, slot)

\* A slip after sequence_build_step: the candidate cursor is not rolled back.
update_after_step_no_rollback(slot, st, r, ief) ==
    [old |-> IF st.old = <<>> THEN <<>> ELSE Tail(st.old),
     new_sequence |-> Append(st.new_sequence, r.item),
     finals |-> MapRemove(st.finals, slot),
     blockclique |-> IF st.blockclique.some
                     THEN SomeMap(MapRemove(st.blockclique.map, slot))
                     ELSE st.blockclique,
     meta |-> r.meta,
     in_execution_finality |-> ief,
     lefs |-> IF ief THEN slot ELSE st.lefs,
     lxcs |-> st.lxcs,
     overwritten |-> IF r.overwrites
                     THEN st.overwritten \cup {slot}
                     ELSE st.overwritten,
     panic |-> r.panic]

\* A slip after sequence_build_step: a new speculative miss is not appended.
update_after_step_skip_miss(slot, st, r, ief) ==
    [old |-> IF st.old = <<>> THEN <<>> ELSE Tail(st.old),
     new_sequence |-> IF /\ st.old = <<>>
                         /\ ~r.item.consensus_final
                         /\ r.item.content = NoBlock
                      THEN st.new_sequence
                      ELSE Append(st.new_sequence, r.item),
     finals |-> MapRemove(st.finals, slot),
     blockclique |-> IF st.blockclique.some
                     THEN SomeMap(MapRemove(st.blockclique.map, slot))
                     ELSE st.blockclique,
     meta |-> r.meta,
     in_execution_finality |-> ief,
     lefs |-> IF ief THEN slot ELSE st.lefs,
     lxcs |-> IF r.overwrites /\ SlotLE(slot, st.lxcs) /\ ~prev_slot_is_err(slot)
              THEN get_prev_slot(slot)
              ELSE st.lxcs,
     overwritten |-> IF r.overwrites
                     THEN st.overwritten \cup {slot}
                     ELSE st.overwritten,
     panic |-> \/ r.panic
               \/ r.overwrites /\ SlotLE(slot, st.lxcs) /\ prev_slot_is_err(slot)]

\* A slip after sequence_build_step: the rollback does not test the cursor.
update_after_step_unguarded(slot, st, r, ief) ==
    [old |-> IF st.old = <<>> THEN <<>> ELSE Tail(st.old),
     new_sequence |-> Append(st.new_sequence, r.item),
     finals |-> MapRemove(st.finals, slot),
     blockclique |-> IF st.blockclique.some
                     THEN SomeMap(MapRemove(st.blockclique.map, slot))
                     ELSE st.blockclique,
     meta |-> r.meta,
     in_execution_finality |-> ief,
     lefs |-> IF ief THEN slot ELSE st.lefs,
     lxcs |-> IF r.overwrites /\ ~prev_slot_is_err(slot)
              THEN get_prev_slot(slot)
              ELSE st.lxcs,
     overwritten |-> IF r.overwrites
                     THEN st.overwritten \cup {slot}
                     ELSE st.overwritten,
     panic |-> \/ r.panic
               \/ r.overwrites /\ prev_slot_is_err(slot)]

\* What follows the call of sequence_build_step in one iteration of the walk:
\* r is its result, ief the new value of in_execution_finality.
update_after_step(slot, st, r, ief) ==
    [old |-> IF st.old = <<>> THEN <<>> ELSE Tail(st.old),
     new_sequence |-> Append(st.new_sequence, r.item),
     finals |-> MapRemove(st.finals, slot),
     blockclique |-> IF st.blockclique.some
                     THEN SomeMap(MapRemove(st.blockclique.map, slot))
                     ELSE st.blockclique,
     meta |-> r.meta,
     in_execution_finality |-> ief,
     lefs |-> IF ief THEN slot ELSE st.lefs,
     \* roll the candidate cursor back to just before an overwrite
     lxcs |-> IF r.overwrites /\ SlotLE(slot, st.lxcs) /\ ~prev_slot_is_err(slot)
              THEN get_prev_slot(slot)
              ELSE st.lxcs,
     overwritten |-> IF r.overwrites
                     THEN st.overwritten \cup {slot}
                     ELSE st.overwritten,
     panic |-> \/ r.panic
               \/ r.overwrites /\ SlotLE(slot, st.lxcs) /\ prev_slot_is_err(slot)]

update_with_step(slot, st, r) ==
    update_after_step(slot, st, r,
                      st.in_execution_finality /\ r.item.execution_final)

\* One iteration of the "while slot <= max_slot" loop of update.
update_step(slot, lcfs, st) ==
    IF st.old # <<>> /\ Head(st.old).slot # slot
    THEN [st EXCEPT !.panic = TRUE]      \* "slot sequencing mismatch"
    ELSE update_with_step(slot, st,
             sequence_build_step(
                 slot,
                 IF st.old = <<>> THEN <<>> ELSE <<Head(st.old)>>,
                 new_consensus_final(lcfs, slot),
                 MapTake(st.finals, slot),
                 st.blockclique.some,
                 IF st.blockclique.some
                 THEN MapTake(st.blockclique.map, slot)
                 ELSE NoBlock,
                 st.meta,
                 st.in_execution_finality))

RECURSIVE update_loop(_, _, _, _)
update_loop(slot, max_slot, lcfs, st) ==
    IF ~SlotLE(slot, max_slot) \/ st.panic
    THEN st
    ELSE update_loop(get_next_slot(slot), max_slot, lcfs,
                     update_step(slot, lcfs, st))

\* The end of update: the residue checks, the new sequence and the cleanup.
update_finish(lcfs, lxfs, st) ==
    [panic |-> \/ st.panic
               \/ st.old # <<>>
               \/ DOMAIN st.finals # {}
               \/ st.blockclique.some /\ DOMAIN st.blockclique.map # {},
     sequence |-> cleanup_sequence(st.new_sequence, lcfs, st.lefs, lxfs, st.lxcs),
     lcfs |-> lcfs,
     lefs |-> st.lefs,
     lxcs |-> st.lxcs,
     overwritten |-> st.overwritten]

\* A slip in max_slot: the back of the old sequence is left out.
update_max_slot_without_back(lcfs, new_blockclique, seq) ==
    SlotMaxOf(SlotSetMax({lcfs[t] : t \in DOMAIN lcfs}),
              IF new_blockclique.some /\ DOMAIN new_blockclique.map # {}
              THEN SlotSetMax(DOMAIN new_blockclique.map)
              ELSE Slot(last_start_period, 0))

update_max_slot(lcfs, new_blockclique, seq) ==
    SlotMaxOf(
        SlotMaxOf(SlotSetMax({lcfs[t] : t \in DOMAIN lcfs}),
                  IF new_blockclique.some /\ DOMAIN new_blockclique.map # {}
                  THEN SlotSetMax(DOMAIN new_blockclique.map)
                  ELSE Slot(last_start_period, 0)),
        seq[Len(seq)].slot)

update_build(new_consensus_final_blocks, new_blockclique, new_blocks_metadata, seq, lcfs, lefs, lxfs, lxcs) ==
    update_finish(lcfs, lxfs,
        update_loop(seq[1].slot,
                    update_max_slot(lcfs, new_blockclique, seq),
                    lcfs,
                    [old |-> seq,
                     new_sequence |-> <<>>,
                     finals |-> new_consensus_final_blocks,
                     blockclique |-> new_blockclique,
                     meta |-> new_blocks_metadata,
                     in_execution_finality |-> TRUE,
                     lefs |-> lefs,
                     lxcs |-> lxcs,
                     overwritten |-> {},
                     panic |-> FALSE]))

\* The sequencer after an update on a non-empty sequence.
update_incremental(new_consensus_final_blocks, new_blockclique, new_blocks_metadata, seq, lcfs0, lefs, lxfs, lxcs) ==
    update_build(new_consensus_final_blocks, new_blockclique, new_blocks_metadata,
                 seq,
                 UpdateConsensusFinalSlots(lcfs0, new_consensus_final_blocks),
                 lefs, lxfs, lxcs)

(***************************************************************************)
(* Inputs of update.                                                       *)
(***************************************************************************)
\* HashMap<Slot, BlockId> values: the empty map and the maps of one entry.
InputMaps ==
    {EmptyMap} \cup {[x \in {s} |-> b] : s \in AllSlots, b \in Blocks}

InputBlockcliques == {NoneMap} \cup {SomeMap(m) : m \in InputMaps}

\* new_blocks_metadata: the block ids that come with their metadata.  The
\* consensus side sends the metadata of every block it names.
InputMetadata == {Blocks}


(***************************************************************************)
(* History variables.                                                      *)
(***************************************************************************)
\* The callback has not been given that slot.
NotExecuted == "NotExecuted"

\* The speculative executions that stand are those after the final cursor, up
\* to the candidate cursor; the record of any other execution is dropped.
Standing(ex, lxfs, lxcs) ==
    [s \in DOMAIN ex |->
        IF SlotLT(lxfs, s) /\ SlotLE(s, lxcs) THEN ex[s] ELSE NotExecuted]

\* One invocation of the callback of run_task_with.
Invocation(is_final, slot, content) ==
    [is_final |-> is_final, slot |-> slot, content |-> content]

\* The outcome of the last step.  calls: the callback invocations it made, in
\* order; some: whether it returned Some(..); overwritten: the slots for which
\* sequence_build_step reported a history overwrite.
Call(calls, some, overwritten) ==
    [calls |-> calls, some |-> some, overwritten |-> overwritten]

NoOutcome == Call(<<>>, FALSE, {})

\* The last step was not an update call, or its arguments are not kept.
NoInput == <<>>

\* The arguments of an update call.
Input(f, bq, meta) == <<f, bq, meta>>

\* final_blocks after an update call that was given the final blocks f.
Supplied(fb, f) ==
    [s \in DOMAIN fb |-> IF s \in DOMAIN f THEN fb[s] \cup {f[s]} ELSE fb[s]]

\* The final_cursor values given to SlotSequencer::new: the last genesis slot,
\* and a later slot as after a bootstrap.
FinalCursors ==
    {Slot(last_start_period, thread_count - 1), Slot(last_start_period + 1, 0)}

\* The clock when the sequencer is created.  A node at genesis starts before
\* the genesis timestamp; a bootstrapped node starts once the slot of its
\* final cursor has occurred.
FirstNow(final_cursor) ==
    IF final_cursor = Slot(last_start_period, thread_count - 1)
    THEN StartNow
    ELSE get_block_slot_timestamp(final_cursor)

(***************************************************************************)
(* SlotSequencer::new                                                      *)
(***************************************************************************)
Init ==
    \E final_cursor \in FinalCursors :
        /\ sequence = <<>>
        /\ latest_consensus_final_slots =
               [t \in 0..(thread_count - 1) |-> Slot(last_start_period, t)]
        /\ latest_execution_final_slot = final_cursor
        /\ latest_executed_final_slot = final_cursor
        /\ latest_executed_candidate_slot = final_cursor
        /\ now = FirstNow(final_cursor)
        /\ status = "ok"
        /\ last_call = NoOutcome
        /\ executed = [s \in AllSlots |-> NotExecuted]
        /\ n_updates = 0
        /\ last_update = NoInput
        /\ final_blocks = [s \in AllSlots |-> {}]
        /\ config = Config
        /\ PropagationStart
        /\ ConsensusStart
        /\ PureStart

(***************************************************************************)
(* SlotSequencer::update                                                   *)
(***************************************************************************)
Panic ==
    /\ status' = "panic"
    /\ last_call' = NoOutcome
    /\ UNCHANGED <<seqvars, now, executed>>

\* A slip in update: with nothing to bootstrap from it does not return, and
\* goes on to the walk of a sequence that is empty.
update_without_return(new_consensus_final_blocks, new_blockclique, new_blocks_metadata) ==
    IF sequence = <<>>
    THEN
        IF DOMAIN new_consensus_final_blocks # {}
        THEN \E r \in {init(new_consensus_final_blocks,
                            MapUnwrapOrDefault(new_blockclique),
                            new_blocks_metadata,
                            latest_consensus_final_slots,
                            latest_execution_final_slot,
                            latest_executed_final_slot,
                            latest_executed_candidate_slot, now)} :
                 IF r.panic
                 THEN Panic
                 ELSE /\ sequence' = r.sequence
                      /\ latest_consensus_final_slots' = r.lcfs
                      /\ last_call' = NoOutcome
                      /\ UNCHANGED <<latest_execution_final_slot,
                                     latest_executed_final_slot,
                                     latest_executed_candidate_slot,
                                     now, status, executed>>
        ELSE Panic     \* .expect("slot sequence should not be empty")
    ELSE
        \E r \in {update_incremental(new_consensus_final_blocks, new_blockclique,
                                     new_blocks_metadata, sequence,
                                     latest_consensus_final_slots,
                                     latest_execution_final_slot,
                                     latest_executed_final_slot,
                                     latest_executed_candidate_slot)} :
            IF r.panic
            THEN Panic
            ELSE /\ sequence' = r.sequence
                 /\ latest_consensus_final_slots' = r.lcfs
                 /\ latest_execution_final_slot' = r.lefs
                 /\ latest_executed_candidate_slot' = r.lxcs
                 /\ last_call' = Call(<<>>, FALSE, r.overwritten)
                 /\ executed' = Standing(executed, latest_executed_final_slot, r.lxcs)
                 /\ UNCHANGED <<latest_executed_final_slot, now, status>>

update(new_consensus_final_blocks, new_blockclique, new_blocks_metadata) ==
    IF sequence = <<>>
    THEN
        IF DOMAIN new_consensus_final_blocks # {}
        THEN \E r \in {init(new_consensus_final_blocks,
                            MapUnwrapOrDefault(new_blockclique),
                            new_blocks_metadata,
                            latest_consensus_final_slots,
                            latest_execution_final_slot,
                            latest_executed_final_slot,
                            latest_executed_candidate_slot, now)} :
                 IF r.panic
                 THEN Panic
                 ELSE /\ sequence' = r.sequence
                      /\ latest_consensus_final_slots' = r.lcfs
                      /\ last_call' = NoOutcome
                      /\ UNCHANGED <<latest_execution_final_slot,
                                     latest_executed_final_slot,
                                     latest_executed_candidate_slot,
                                     now, status, executed>>
        ELSE /\ last_call' = NoOutcome
             /\ UNCHANGED <<seqvars, now, status, executed>>
    ELSE
        \E r \in {update_incremental(new_consensus_final_blocks, new_blockclique,
                                     new_blocks_metadata, sequence,
                                     latest_consensus_final_slots,
                                     latest_execution_final_slot,
                                     latest_executed_final_slot,
                                     latest_executed_candidate_slot)} :
            IF r.panic
            THEN Panic
            ELSE /\ sequence' = r.sequence
                 /\ latest_consensus_final_slots' = r.lcfs
                 /\ latest_execution_final_slot' = r.lefs
                 /\ latest_executed_candidate_slot' = r.lxcs
                 /\ last_call' = Call(<<>>, FALSE, r.overwritten)
                 /\ executed' = Standing(executed, latest_executed_final_slot, r.lxcs)
                 /\ UNCHANGED <<latest_executed_final_slot, now, status>>

Update ==
    /\ status = "ok"
    /\ n_updates < MaxUpdates
    /\ n_updates' = n_updates + 1
    /\ \E f \in InputMaps, bq \in InputBlockcliques, meta \in InputMetadata :
           update(f, bq, meta)
    /\ last_update' = NoInput
    /\ UNCHANGED <<final_blocks, elsewhere>>

(***************************************************************************)
(* SlotSequencer::run_task_with                                            *)
(***************************************************************************)
\* The final branch is taken: the slot after the final cursor is in the
\* sequence and SCE-final.
final_task(seq, lxfs) ==
    /\ get_slot(seq, get_next_slot(lxfs)) # <<>>
    /\ get_slot(seq, get_next_slot(lxfs))[1].execution_final

\* A slip in the candidate test: the slot at the time cursor is not yet ready.
candidate_task_strict(lxcs, clock) ==
    SlotLT(get_next_slot(lxcs), get_time_cursor(clock))

\* The candidate branch: the slot after the candidate cursor is not after the
\* time cursor.
candidate_task(lxcs, clock) ==
    SlotLE(get_next_slot(lxcs), get_time_cursor(clock))

\* A slip in the order of the branches: the candidate slot goes first.
next_task_candidate_first(seq, lxfs, lxcs, clock) ==
    IF candidate_task(lxcs, clock)
    THEN "candidate"
    ELSE IF final_task(seq, lxfs) THEN "final" ELSE "none"

\* The branch run_task_with takes on a non-empty sequence.
next_task(seq, lxfs, lxcs, clock) ==
    IF final_task(seq, lxfs)
    THEN "final"
    ELSE IF candidate_task(lxcs, clock) THEN "candidate" ELSE "none"

\* A slip in is_task_available: the slot at the time cursor is not counted.
is_task_available_strict(seq, lxfs, lxcs, clock) ==
    IF seq = <<>>
    THEN FALSE
    ELSE LET found == get_slot(seq, get_next_slot(lxfs))
             finalization_task_available ==
                 IF found = <<>> THEN FALSE ELSE found[1].execution_final
         IN  IF finalization_task_available
             THEN TRUE
             ELSE SlotLT(get_next_slot(lxcs), get_time_cursor(clock))

\* SlotSequencer::is_task_available (&self: it assigns nothing).
is_task_available(seq, lxfs, lxcs, clock) ==
    IF seq = <<>>
    THEN FALSE
    ELSE LET found == get_slot(seq, get_next_slot(lxfs))
             \* map_or(false, |s_info| s_info.execution_final)
             finalization_task_available ==
                 IF found = <<>> THEN FALSE ELSE found[1].execution_final
         IN  IF finalization_task_available
             THEN TRUE
             ELSE SlotLE(get_next_slot(lxcs), get_time_cursor(clock))

\* Option<&SlotInfo> -> the content handed to the callback
content_of(found) == IF found = <<>> THEN NoBlock ELSE found[1].content

\* A slip in the final branch: the final execution cursor is not advanced.
run_final_cursor_kept(seq, lcfs, lefs, lxfs, lxcs) ==
    [call |-> Invocation(TRUE, get_next_slot(lxfs),
                         content_of(get_slot(seq, get_next_slot(lxfs)))),
     lxfs |-> lxfs,
     lxcs |-> SlotMaxOf(lxcs, get_next_slot(lxfs)),
     sequence |-> cleanup_sequence(seq, lcfs, lefs, lxfs,
                                   SlotMaxOf(lxcs, get_next_slot(lxfs)))]

\* The final branch: the callback invocation and the fields it leaves.
run_final(seq, lcfs, lefs, lxfs, lxcs) ==
    [call |-> Invocation(TRUE, get_next_slot(lxfs),
                         content_of(get_slot(seq, get_next_slot(lxfs)))),
     lxfs |-> get_next_slot(lxfs),
     lxcs |-> SlotMaxOf(lxcs, get_next_slot(lxfs)),
     sequence |-> cleanup_sequence(seq, lcfs, lefs, get_next_slot(lxfs),
                                   SlotMaxOf(lxcs, get_next_slot(lxfs)))]

\* A slip in the candidate branch: the content is read at the front of the
\* sequence, not at the slot.
run_candidate_front(seq, lxcs) ==
    [call |-> Invocation(FALSE, get_next_slot(lxcs), content_of(<<Head(seq)>>)),
     lxcs |-> get_next_slot(lxcs)]

\* The candidate branch: the callback invocation and the new candidate cursor.
run_candidate(seq, lxcs) ==
    [call |-> Invocation(FALSE, get_next_slot(lxcs),
                         content_of(get_slot(seq, get_next_slot(lxcs)))),
     lxcs |-> get_next_slot(lxcs)]

run_task_with ==
    IF sequence = <<>>
    THEN /\ last_call' = NoOutcome
         /\ UNCHANGED <<seqvars, now, status, executed>>
    ELSE
        \E task \in {next_task(sequence, latest_executed_final_slot,
                               latest_executed_candidate_slot, now)} :
            CASE task = "final" ->
                    \E r \in {run_final(sequence, latest_consensus_final_slots,
                                        latest_execution_final_slot,
                                        latest_executed_final_slot,
                                        latest_executed_candidate_slot)} :
                        /\ latest_executed_final_slot' = r.lxfs
                        /\ latest_executed_candidate_slot' = r.lxcs
                        /\ sequence' = r.sequence
                        /\ last_call' = Call(<<r.call>>, TRUE, {})
                        /\ executed' =
                               Standing([executed EXCEPT ![r.call.slot] = r.call.content],
                                        r.lxfs, r.lxcs)
                        /\ UNCHANGED <<latest_consensus_final_slots,
                                       latest_execution_final_slot, now, status>>
              [] task = "candidate" ->
                    \E r \in {run_candidate(sequence,
                                            latest_executed_candidate_slot)} :
                        /\ latest_executed_candidate_slot' = r.lxcs
                        /\ last_call' = Call(<<r.call>>, TRUE, {})
                        /\ executed' =
                               Standing([executed EXCEPT ![r.call.slot] = r.call.content],
                                        latest_executed_final_slot, r.lxcs)
                        /\ UNCHANGED <<sequence, latest_consensus_final_slots,
                                       latest_execution_final_slot,
                                       latest_executed_final_slot, now, status>>
              [] OTHER ->
                    /\ last_call' = NoOutcome
                    /\ UNCHANGED <<seqvars, now, status, executed>>

RunTask ==
    /\ status = "ok"
    /\ run_task_with
    /\ last_update' = NoInput
    /\ UNCHANGED <<n_updates, final_blocks, elsewhere>>

(***************************************************************************)
(* The clock: MassaTime::now() never goes back.                            *)
(***************************************************************************)
Tick ==
    /\ status = "ok"
    /\ now < MaxNow
    /\ now' = now + 1
    /\ last_call' = NoOutcome
    /\ last_update' = NoInput
    /\ UNCHANGED <<seqvars, status, executed, n_updates, final_blocks, elsewhere>>

Next == Update \/ RunTask \/ Tick

Spec == Init /\ [][Next]_vars

\* The execution thread calls run_task_with again and again: a call that
\* has a task to dispatch is not put off for ever.
SpecLive == Init /\ [][Next]_vars /\ WF_vars(RunTask)

(***************************************************************************)
(* SlotSequencer::get_next_slot_deadline (&self: a query), for a sequencer *)
(* created with any configuration: the time functions take the             *)
(* configuration as the code hands it to them.                             *)
(***************************************************************************)
MaxSlotDuration == 3

MaxDeadlineNow == 16

\* Slot::get_next_slot(thread_count)
get_next_slot_with(cfg, s) ==
    IF s.thread + 1 >= cfg.thread_count
    THEN Slot(s.period + 1, 0)
    ELSE Slot(s.period, s.thread + 1)

\* get_latest_block_slot_at_timestamp(thread_count, t0, genesis_timestamp, ts)
get_latest_block_slot_at_timestamp_with(cfg, ts) ==
    IF ts < cfg.genesis_timestamp
    THEN <<>>
    ELSE LET since == ts - cfg.genesis_timestamp
         IN  <<Slot(since \div cfg.t0,
                    (since % cfg.t0) \div (cfg.t0 \div cfg.thread_count))>>

\* get_block_slot_timestamp(thread_count, t0, genesis_timestamp, slot)
get_block_slot_timestamp_with(cfg, s) ==
    cfg.genesis_timestamp + s.period * cfg.t0
        + s.thread * (cfg.t0 \div cfg.thread_count)

get_time_cursor_with(cfg, clock) ==
    LET shifted_now == saturating_sub(clock, cfg.cursor_delay)
        latest == get_latest_block_slot_at_timestamp_with(cfg, shifted_now)
    IN  IF latest = <<>> THEN Slot(cfg.last_start_period, 0) ELSE latest[1]

\* A slip in the deadline: the cursor delay is not added back.
get_next_slot_deadline_undelayed(cfg, seq, clock) ==
    IF seq = <<>>
    THEN clock + cfg.t0 \div cfg.thread_count
    ELSE get_block_slot_timestamp_with(
             cfg, get_next_slot_with(cfg, get_time_cursor_with(cfg, clock)))

get_next_slot_deadline(cfg, seq, clock) ==
    IF seq = <<>>
    THEN clock + cfg.t0 \div cfg.thread_count
    ELSE get_block_slot_timestamp_with(
             cfg, get_next_slot_with(cfg, get_time_cursor_with(cfg, clock)))
             + cfg.cursor_delay

\* The configurations: two or three threads, a slot of one to MaxSlotDuration
\* clock ticks (t0 is a multiple of thread_count), genesis at the first clock
\* reading or later, with and without a cursor delay.
DeadlineConfigs ==
    {[thread_count |-> n, t0 |-> n * d, genesis_timestamp |-> g,
      cursor_delay |-> c, last_start_period |-> last_start_period] :
         n \in 2..3, d \in 1..MaxSlotDuration, g \in {0, 3}, c \in {0, 2}}

\* A sequencer of any such configuration, at any clock reading, before its
\* first update (no sequence) or after it.
InitDeadline ==
    /\ config \in DeadlineConfigs
    /\ now \in 0..MaxDeadlineNow
    /\ sequence \in {<<>>, <<SlotInfo(Slot(last_start_period, 0), TRUE, TRUE, NoBlock)>>}
    /\ latest_consensus_final_slots =
           [t \in 0..(thread_count - 1) |-> Slot(last_start_period, t)]
    /\ latest_execution_final_slot = Slot(last_start_period, 0)
    /\ latest_executed_final_slot = Slot(last_start_period, 0)
    /\ latest_executed_candidate_slot = Slot(last_start_period, 0)
    /\ status = "ok"
    /\ last_call = NoOutcome
    /\ executed = [s \in AllSlots |-> NotExecuted]
    /\ n_updates = 0
    /\ last_update = NoInput
    /\ final_blocks = [s \in AllSlots |-> {}]
    /\ PropagationStart
    /\ ConsensusStart
    /\ PureStart

\* The execution thread asks for the deadline and sleeps until it; last_update
\* keeps the clock reading of the call.
WaitForDeadline ==
    /\ get_next_slot_deadline(config, sequence, now) <= MaxDeadlineNow
    /\ now' = get_next_slot_deadline(config, sequence, now)
    /\ last_update' = <<now>>
    /\ UNCHANGED <<seqvars, status, last_call, executed, n_updates,
                   final_blocks, elsewhere>>

NextDeadline == WaitForDeadline

SpecDeadline == InitDeadline /\ [][NextDeadline]_vars

(***************************************************************************)
(* The sequencer with the history of its inputs kept, fed with the wider   *)
(* inputs: a first batch of final blocks of two entries, as a bootstrap    *)
(* gives, and metadata maps that lack blocks.                              *)
(***************************************************************************)
\* The block ids of these inputs: two final blocks and a block that only a
\* blockclique names.
FinalBlocks == {"B1", "B2"}

BlockcliqueBlocks == {"B1", "B3"}

\* The first batch of final blocks: the empty map, the maps of one entry and
\* the maps of two entries (block ids are opaque: the earlier slot has B1).
BootstrapMaps ==
    InputMaps \cup
        {[x \in {pr[1], pr[2]} |-> IF x = pr[1] THEN "B1" ELSE "B2"] :
             pr \in {q \in AllSlots \X AllSlots : SlotLT(q[1], q[2])}}

\* new_blockclique: None, the empty map, or one entry.
RecordedBlockcliques ==
    {NoneMap, SomeMap(EmptyMap)} \cup
        {SomeMap([x \in {s} |-> b]) : s \in AllSlots, b \in BlockcliqueBlocks}

\* new_blocks_metadata: the metadata of every block, or of none.
InputMetadataSets == {FinalBlocks \cup BlockcliqueBlocks, {}}

UpdateRecorded ==
    /\ status = "ok"
    /\ n_updates < MaxRecordedUpdates
    /\ n_updates' = n_updates + 1
    /\ \E f \in (IF sequence = <<>> THEN BootstrapMaps ELSE InputMaps),
          bq \in RecordedBlockcliques, meta \in InputMetadataSets :
           /\ update(f, bq, meta)
           /\ last_update' = Input(f, bq, meta)
           /\ final_blocks' = Supplied(final_blocks, f)
    /\ UNCHANGED elsewhere

NextRecorded == UpdateRecorded \/ RunTask \/ Tick

SpecRecorded == Init /\ [][NextRecorded]_vars

(***************************************************************************)
(* cleanup_sequence on its own: it is applied once to a sequencer whose    *)
(* sequence is any run of consecutive slots and whose watermarks and       *)
(* cursors are any slots.                                                  *)
(***************************************************************************)
\* The SlotInfo of the runs: flags and content vary with the slot.
RunInfo(s) ==
    SlotInfo(s, s.thread = 0, s.period = 0, IF s.period = 1 THEN "B1" ELSE NoBlock)

RECURSIVE SlotRun(_, _)
\* The run of n consecutive slots that starts at slot s.
SlotRun(s, n) ==
    IF n = 0 THEN <<>> ELSE <<RunInfo(s)>> \o SlotRun(get_next_slot(s), n - 1)

\* The runs of consecutive slots within AllSlots, the empty one included.
SlotRuns ==
    {r \in {SlotRun(s, n) : s \in AllSlots,
                            n \in 0..(thread_count * (MaxPeriod + 1))} :
        \A i \in 1..Len(r) : r[i].slot \in AllSlots}

InitCleanup ==
    /\ sequence \in SlotRuns
    /\ latest_consensus_final_slots \in
           {w \in [0..(thread_count - 1) -> AllSlots] :
                \A t \in 0..(thread_count - 1) : w[t].thread = t}
    /\ latest_execution_final_slot \in AllSlots
    /\ latest_executed_final_slot \in AllSlots
    /\ latest_executed_candidate_slot \in AllSlots
    /\ now = StartNow
    /\ status = "ok"
    /\ last_call = NoOutcome
    /\ executed = [s \in AllSlots |-> NotExecuted]
    /\ n_updates = 0
    /\ last_update = NoInput
    /\ final_blocks = [s \in AllSlots |-> {}]
    /\ config = Config
    /\ PropagationStart
    /\ ConsensusStart
    /\ PureStart

\* One call of cleanup_sequence; last_update keeps the sequence it was given.
CleanupStep ==
    /\ last_update = NoInput
    /\ sequence' = cleanup_sequence(sequence, latest_consensus_final_slots,
                                    latest_execution_final_slot,
                                    latest_executed_final_slot,
                                    latest_executed_candidate_slot)
    /\ last_update' = <<sequence>>
    /\ UNCHANGED <<latest_consensus_final_slots, latest_execution_final_slot,
                   latest_executed_final_slot, latest_executed_candidate_slot,
                   now, status, last_call, executed, n_updates, final_blocks,
                   elsewhere>>

NextCleanup == CleanupStep

SpecCleanup == InitCleanup /\ [][NextCleanup]_vars

(***************************************************************************)
(* The end-to-end scenarios S1 and S2: a sequencer created with the final  *)
(* cursor at (0,1) is bootstrapped with three final blocks when the        *)
(* shifted clock is one period after genesis, then gets the three updates  *)
(* of S2; tasks run and the clock advances in between.                     *)
(***************************************************************************)
\* The clock reading at which the shifted clock is t0 after genesis: the
\* model counts time in units of t0 / thread_count from its own genesis and
\* cursor delay, and the time cursor depends on the shifted clock only.
S1Now == get_block_slot_timestamp(Slot(last_start_period + 1, 0)) + cursor_delay

S1FinalCursor == Slot(last_start_period, 1)

S1Finals ==
    [s \in {Slot(0, 0), Slot(0, 1), Slot(1, 0)} |->
        IF s = Slot(0, 0) THEN "B0" ELSE IF s = Slot(0, 1) THEN "B1" ELSE "B2"]

S1Input == Input(S1Finals, SomeMap(EmptyMap), {"B0", "B1", "B2"})

S2Input1 ==
    Input([s \in {Slot(1, 1)} |-> "Bx"], SomeMap([s \in {Slot(1, 0)} |-> "Bc"]),
          {"Bx", "Bc"})

S2Input2 == Input([s \in {Slot(1, 0)} |-> "Bc"], NoneMap, {})

S2Input3 == Input([s \in {Slot(1, 0)} |-> "Bd"], NoneMap, {"Bd"})

InitScenario ==
    /\ Init
    /\ latest_execution_final_slot = S1FinalCursor

\* The k-th update of the scenarios, with input in.
ScenarioUpdate(k, in) ==
    /\ status = "ok"
    /\ n_updates = k
    /\ n_updates' = n_updates + 1
    /\ update(in[1], in[2], in[3])
    /\ last_update' = in
    /\ final_blocks' = Supplied(final_blocks, in[1])
    /\ UNCHANGED elsewhere

S1Update == now = S1Now /\ ScenarioUpdate(0, S1Input)

S2Update1 == sequence # <<>> /\ ScenarioUpdate(1, S2Input1)

S2Update2 == sequence # <<>> /\ ScenarioUpdate(2, S2Input2)

S2Update3 == sequence # <<>> /\ ScenarioUpdate(3, S2Input3)

NextScenario ==
    S1Update \/ S2Update1 \/ S2Update2 \/ S2Update3 \/ RunTask \/ Tick

SpecScenario == InitScenario /\ [][NextScenario]_vars

(***************************************************************************)
(* The operation propagation thread (PropagationThread), with the command  *)
(* channel, the clock, the connections and the shared operation cache.     *)
(***************************************************************************)
MaxInstant == 2

MaxCommands == 2

MaxSendFailures == 1

ChannelCapacity == 2

MaxOpsPerCommand == 2

Peers == {"p1", "p2"}

OperationIds == {"a1", "a2", "b1"}

\* OperationId::prefix: a1 and a2 have the same prefix.
prefix(id) == IF id \in {"a1", "a2"} THEN "a" ELSE "b"

\* The elements of a list.
Range(list) == {list[i] : i \in DOMAIN list}

\* The orders in which a PreHashSet of operation ids may be iterated.
IterationOrders ==
    {k \in [1..Cardinality(OperationIds) -> OperationIds] :
         \A i, j \in DOMAIN k : k[i] = k[j] => i = j}

\* The elements of set S in the order key.
RECURSIVE Iterate(_, _)
Iterate(key, S) ==
    IF key = <<>>
    THEN <<>>
    ELSE IF Head(key) \in S
         THEN <<Head(key)>> \o Iterate(Tail(key), S)
         ELSE Iterate(Tail(key), S)

\* The commands of the channel.
PropagateOperations(ops) == [cmd |-> "PropagateOperations", operations |-> ops]

Stop == [cmd |-> "Stop", operations |-> {}]

Commands ==
    {Stop} \cup
        {PropagateOperations(ops) :
             ops \in {S \in SUBSET OperationIds :
                         S # {} /\ Cardinality(S) <= MaxOpsPerCommand}}

\* The results of send_to_peer.
SendOk == "Ok"

SendError == "SendError"

PeerDisconnected == "PeerDisconnected"

SendResults == {SendOk, SendError, PeerDisconnected}

\* LruMap::peek: the key is in the cache; the order of use is not changed.
lru_peek(known, k) == \E i \in 1..Len(known) : known[i] = k

\* The cache without key k.
RECURSIVE lru_remove(_, _)
lru_remove(known, k) ==
    IF known = <<>>
    THEN <<>>
    ELSE IF Head(known) = k
         THEN lru_remove(Tail(known), k)
         ELSE <<Head(known)>> \o lru_remove(Tail(known), k)

\* LruMap::insert: the key becomes the most recently used (last); the least
\* recently used key is dropped when the capacity is exceeded.
lru_insert(known, k) ==
    LET put == Append(lru_remove(known, k), k)
    IN  IF Len(put) > max_node_known_ops_size THEN Tail(put) ELSE put

RECURSIVE lru_insert_all(_, _)
lru_insert_all(known, ks) ==
    IF ks = <<>>
    THEN known
    ELSE lru_insert_all(lru_insert(known, Head(ks)), Tail(ks))

\* OperationCache::update_cache: the peers that are no longer connected are
\* removed, the newly connected peers get an empty cache.
update_cache(ca, peers_connected) ==
    [ca EXCEPT !.ops_known_by_peer =
        [p \in peers_connected |->
            IF p \in DOMAIN ca.ops_known_by_peer
            THEN ca.ops_known_by_peer[p]
            ELSE <<>>]]

\* slice::chunks(n)
RECURSIVE chunks(_, _)
chunks(list, n) ==
    IF list = <<>>
    THEN <<>>
    ELSE IF Len(list) <= n
         THEN <<list>>
         ELSE <<SubSeq(list, 1, n)>> \o chunks(SubSeq(list, n + 1, Len(list)), n)

\* The prefixes of a list of ids.
prefixes(ids) == [i \in DOMAIN ids |-> prefix(ids[i])]

\* A slip in the send loop: a disconnection does not end the loop.
RECURSIVE send_chunks_no_break(_, _, _)
send_chunks_no_break(sub_lists, fate, i) ==
    IF sub_lists = <<>>
    THEN <<>>
    ELSE <<[ids |-> Head(sub_lists), result |-> fate[i]]>>
             \o send_chunks_no_break(Tail(sub_lists), fate, i + 1)

\* The loop over the chunks of one peer: fate[i] is what send_to_peer returns
\* for the i-th chunk; the loop ends at a PeerDisconnected.  The result is
\* the list of the calls made.
RECURSIVE send_chunks(_, _, _)
send_chunks(sub_lists, fate, i) ==
    IF sub_lists = <<>>
    THEN <<>>
    ELSE LET sent == [ids |-> Head(sub_lists), result |-> fate[i]]
         IN  IF fate[i] = PeerDisconnected
             THEN <<sent>>
             ELSE <<sent>> \o send_chunks(Tail(sub_lists), fate, i + 1)

\* The ids of the batch that the peer is not known to have.
RECURSIVE filter_unknown(_, _)
filter_unknown(ids, known) ==
    IF ids = <<>>
    THEN <<>>
    ELSE IF lru_peek(known, prefix(Head(ids)))
         THEN filter_unknown(Tail(ids), known)
         ELSE <<Head(ids)>> \o filter_unknown(Tail(ids), known)

\* A slip in the announcement: the batch is not filtered.
announce_to_peer_unfiltered(known, operation_ids, fate) ==
    [known |-> lru_insert_all(known, prefixes(operation_ids)),
     new_ops |-> operation_ids,
     sends |-> send_chunks(chunks(operation_ids, max_operations_per_message), fate, 1)]

\* The body of the loop over the peers: the cache of the peer after it, the
\* ids selected for the peer and the calls of send_to_peer.
announce_to_peer(known, operation_ids, fate) ==
    LET new_ops == filter_unknown(operation_ids, known)
    IN  [known |-> lru_insert_all(known, prefixes(new_ops)),
         new_ops |-> new_ops,
         sends |-> send_chunks(chunks(new_ops, max_operations_per_message), fate, 1)]

\* No announcement burst.
NoBurst == <<>>

\* announce_ops, on the thread th and the cache ca, with the peers conn
\* connected, the batch iterated in the order key and the sends meeting the
\* results out[peer][i]: the thread, the cache and the burst (the batch and,
\* per peer of the cache, what was selected and what was sent), NoBurst when
\* the batch is empty.
announce_ops(th, ca, conn, key, out) ==
    IF th.next_batch = {}
    THEN [th |-> th, ca |-> ca, burst |-> NoBurst]
    ELSE LET operation_ids == Iterate(key, th.next_batch)
             refreshed == update_cache(ca, conn)
             done == [p \in DOMAIN refreshed.ops_known_by_peer |->
                         announce_to_peer(refreshed.ops_known_by_peer[p],
                                          operation_ids, out[p])]
         IN  [th |-> [th EXCEPT !.next_batch = {}],
              ca |-> [refreshed EXCEPT !.ops_known_by_peer =
                         [p \in DOMAIN done |-> done[p].known]],
              burst |-> <<[operation_ids |-> operation_ids,
                           to |-> [p \in DOMAIN done |->
                                      [new_ops |-> done[p].new_ops,
                                       sends |-> done[p].sends]]]>>]

\* The groups left once the expired groups have been popped from the front,
\* and the ids popped.
RECURSIVE remove_expired(_, _, _)
remove_expired(stored, clock, removed) ==
    IF stored # <<>> /\ clock - Head(stored).t > max_operations_propagation_time
    THEN remove_expired(Tail(stored), clock, removed \cup Head(stored).ops)
    ELSE [stored |-> stored, removed |-> removed]

RECURSIVE total_ops(_)
total_ops(stored) ==
    IF stored = <<>> THEN 0 ELSE Cardinality(Head(stored).ops) + total_ops(Tail(stored))

\* The groups left once the groups in excess have been popped from the front.
RECURSIVE remove_excess(_, _, _)
remove_excess(stored, excess_count, removed) ==
    IF excess_count > 0 /\ stored # <<>>
    THEN remove_excess(Tail(stored),
                       saturating_sub(excess_count, Cardinality(Head(stored).ops)),
                       removed \cup Head(stored).ops)
    ELSE [stored |-> stored, removed |-> removed]

\* Storage::drop_operation_refs: the handle holds a set of references.
drop_operation_refs(op_storage, removed) == op_storage \ removed

\* Storage::extend
storage_extend(op_storage, ops) == op_storage \cup ops

\* A slip in prune_propagation_storage: the cap is on the number of groups.
prune_propagation_storage_by_groups(th, clock) ==
    LET expired == remove_expired(th.stored_for_propagation, clock, {})
        capped == remove_excess(expired.stored,
                      saturating_sub(Len(expired.stored), max_ops_kept_for_propagation),
                      expired.removed)
    IN  [th EXCEPT !.stored_for_propagation = capped.stored,
                   !.op_storage = drop_operation_refs(th.op_storage, capped.removed)]

prune_propagation_storage(th, clock) ==
    LET expired == remove_expired(th.stored_for_propagation, clock, {})
        capped == remove_excess(expired.stored,
                      saturating_sub(total_ops(expired.stored), max_ops_kept_for_propagation),
                      expired.removed)
    IN  [th EXCEPT !.stored_for_propagation = capped.stored,
                   !.op_storage = drop_operation_refs(th.op_storage, capped.removed)]

\* The peers for which send_to_peer returned PeerDisconnected in the bursts:
\* they were no longer among the connections.
Gone(bursts) ==
    {p \in Peers :
         \E b \in DOMAIN bursts :
             /\ p \in DOMAIN bursts[b].to
             /\ \E i \in DOMAIN bursts[b].to[p].sends :
                    bursts[b].to[p].sends[i].result = PeerDisconnected}

\* The loop "for op_id in new_ops" of run: st holds the thread, the cache,
\* the connections and the bursts made so far.
RECURSIVE fill_batch(_, _, _, _, _)
fill_batch(st, new_ops, clock, key, out) ==
    IF new_ops = <<>>
    THEN st
    ELSE LET th == [st.th EXCEPT !.next_batch = @ \cup {Head(new_ops)}]
         IN  IF Cardinality(th.next_batch) >= operation_announcement_buffer_capacity
             THEN LET a == announce_ops(th, st.ca, st.conn, key, out)
                  IN  fill_batch(
                          [th |-> [a.th EXCEPT !.batch_deadline =
                                      clock + operation_announcement_interval],
                           ca |-> a.ca,
                           conn |-> st.conn \ Gone(a.burst),
                           bursts |-> st.bursts \o a.burst],
                          Tail(new_ops), clock, key, out)
             ELSE fill_batch([st EXCEPT !.th = th], Tail(new_ops), clock, key, out)

\* The arm of run for PropagateOperations(operations).
propagate_operations(th, ca, conn, clock, operations, key, out) ==
    LET checked == [ca EXCEPT !.checked_operations = @ \cup operations]
        stored == [th EXCEPT
                      !.stored_for_propagation =
                          Append(@, [t |-> clock, ops |-> operations]),
                      !.op_storage = storage_extend(@, operations)]
    IN  fill_batch([th |-> prune_propagation_storage(stored, clock),
                    ca |-> checked,
                    conn |-> conn,
                    bursts |-> <<>>],
                   Iterate(key, operations), clock, key, out)

\* The number of chunks of a batch of k ids.
NChunks(k) == (k + max_operations_per_message - 1) \div max_operations_per_message

\* What the sends of one step may meet: a result for each connected peer and
\* each chunk of a batch of at most k ids, with at most MaxSendFailures
\* results that are errors.
SendFates(k) ==
    {out \in [active_connections -> [1..NChunks(k) -> SendResults]] :
         Cardinality({pi \in active_connections \X (1..NChunks(k)) :
                          out[pi[1]][pi[2]] # SendOk}) <= MaxSendFailures}

(***************************************************************************)
(* The environment of the thread.                                          *)
(***************************************************************************)
\* A command is put on the channel.
SendCommand ==
    /\ ~propagation_thread.internal_receiver.disconnected
    /\ Len(propagation_thread.internal_receiver.queue) < ChannelCapacity
    /\ propagation_thread.internal_receiver.sent < MaxCommands
    /\ \E c \in Commands :
           propagation_thread' =
               [propagation_thread EXCEPT !.internal_receiver.queue = Append(@, c),
                                          !.internal_receiver.sent = @ + 1]
    /\ announcements' = <<>>
    /\ UNCHANGED <<cache, active_connections, instant, sequencer, consvars, purevars>>

\* Every sender of the channel is dropped.
DropSenders ==
    /\ ~propagation_thread.internal_receiver.disconnected
    /\ propagation_thread' =
           [propagation_thread EXCEPT !.internal_receiver.disconnected = TRUE]
    /\ announcements' = <<>>
    /\ UNCHANGED <<cache, active_connections, instant, sequencer, consvars, purevars>>

\* A peer connects or disconnects.
Connection ==
    /\ \E p \in Peers :
           active_connections' =
               IF p \in active_connections
               THEN active_connections \ {p}
               ELSE active_connections \cup {p}
    /\ announcements' = <<>>
    /\ UNCHANGED <<propagation_thread, cache, instant, sequencer, consvars, purevars>>

PassTime ==
    /\ instant < MaxInstant
    /\ instant' = instant + 1
    /\ announcements' = <<>>
    /\ UNCHANGED <<propagation_thread, cache, active_connections, sequencer, consvars, purevars>>

(***************************************************************************)
(* PropagationThread::run: one turn of the loop.                           *)
(***************************************************************************)
\* recv_deadline gives PropagateOperations(operations).
RecvPropagateOperations ==
    /\ propagation_thread.running
    /\ propagation_thread.internal_receiver.queue # <<>>
    /\ Head(propagation_thread.internal_receiver.queue).cmd = "PropagateOperations"
    /\ LET operations == Head(propagation_thread.internal_receiver.queue).operations
           th == [propagation_thread EXCEPT !.internal_receiver.queue = Tail(@)]
       IN  \E key \in IterationOrders,
              out \in SendFates(operation_announcement_buffer_capacity) :
               \E r \in {propagate_operations(th, cache, active_connections,
                                              instant, operations, key, out)} :
                   /\ propagation_thread' = r.th
                   /\ cache' = r.ca
                   /\ active_connections' = r.conn
                   /\ announcements' = r.bursts
    /\ UNCHANGED <<instant, sequencer, consvars, purevars>>

\* A slip in the Stop arm: the command is dropped and the loop goes on.
RecvStopGoesOn ==
    /\ propagation_thread.running
    /\ propagation_thread.internal_receiver.queue # <<>>
    /\ Head(propagation_thread.internal_receiver.queue).cmd = "Stop"
    /\ propagation_thread' =
           [propagation_thread EXCEPT !.internal_receiver.queue = Tail(@)]
    /\ announcements' = <<>>
    /\ UNCHANGED <<cache, active_connections, instant, sequencer, consvars, purevars>>

\* recv_deadline gives Stop.
RecvStop ==
    /\ propagation_thread.running
    /\ propagation_thread.internal_receiver.queue # <<>>
    /\ Head(propagation_thread.internal_receiver.queue).cmd = "Stop"
    /\ propagation_thread' =
           [propagation_thread EXCEPT !.internal_receiver.queue = Tail(@),
                                      !.running = FALSE]
    /\ announcements' = <<>>
    /\ UNCHANGED <<cache, active_connections, instant, sequencer, consvars, purevars>>

\* recv_deadline gives Err(Timeout): the deadline has come with no command.
RecvTimeout ==
    /\ propagation_thread.running
    /\ propagation_thread.internal_receiver.queue = <<>>
    /\ ~propagation_thread.internal_receiver.disconnected
    /\ instant >= propagation_thread.batch_deadline
    /\ \E key \in IterationOrders,
          out \in SendFates(Cardinality(propagation_thread.next_batch)) :
           \E a \in {announce_ops(propagation_thread, cache, active_connections,
                                  key, out)} :
               /\ propagation_thread' =
                      [a.th EXCEPT !.batch_deadline =
                          instant + operation_announcement_interval]
               /\ cache' = a.ca
               /\ active_connections' = active_connections \ Gone(a.burst)
               /\ announcements' = a.burst
    /\ UNCHANGED <<instant, sequencer, consvars, purevars>>

\* recv_deadline gives Err(Disconnected): no sender is left and the channel
\* is empty.
RecvDisconnected ==
    /\ propagation_thread.running
    /\ propagation_thread.internal_receiver.queue = <<>>
    /\ propagation_thread.internal_receiver.disconnected
    /\ propagation_thread' = [propagation_thread EXCEPT !.running = FALSE]
    /\ announcements' = <<>>
    /\ UNCHANGED <<cache, active_connections, instant, sequencer, consvars, purevars>>

InitPropagation ==
    /\ Init
    /\ latest_execution_final_slot = Slot(last_start_period, thread_count - 1)

NextPropagation ==
    \/ SendCommand
    \/ DropSenders
    \/ Connection
    \/ PassTime
    \/ RecvPropagateOperations
    \/ RecvStop
    \/ RecvTimeout
    \/ RecvDisconnected

SpecPropagation == InitPropagation /\ [][NextPropagation]_vars

(***************************************************************************)
(* The propagation thread while it keeps running: commands arrive without  *)
(* end, none of them Stop, no sender is dropped and time goes on.  Instants *)
(* are counted from a moving origin once the clock has reached MaxInstant. *)
(***************************************************************************)
\* A PropagateOperations command of one operation is sent, whatever the
\* number sent before, once the thread has taken the one before it.
CommandArrives ==
    /\ propagation_thread.internal_receiver.queue = <<>>
    /\ \E id \in OperationIds :
           propagation_thread' =
               [propagation_thread EXCEPT
                   !.internal_receiver.queue = Append(@, PropagateOperations({id}))]
    /\ announcements' = <<>>
    /\ UNCHANGED <<cache, active_connections, instant, sequencer, consvars, purevars>>

\* Time passes at MaxInstant: the origin moves instead, and every instant the
\* thread holds is one less (an instant that would be before the origin is
\* already more than max_operations_propagation_time old).
TimeGoesOn ==
    /\ instant = MaxInstant
    /\ propagation_thread' =
           [propagation_thread EXCEPT
               !.batch_deadline = saturating_sub(@, 1),
               !.stored_for_propagation =
                   [i \in DOMAIN @ |-> [@[i] EXCEPT !.t = saturating_sub(@, 1)]]]
    /\ announcements' = <<>>
    /\ UNCHANGED <<cache, active_connections, instant, sequencer, consvars, purevars>>

Elapse == PassTime \/ TimeGoesOn

NextFlush ==
    \/ CommandArrives
    \/ PassTime
    \/ TimeGoesOn
    \/ RecvPropagateOperations
    \/ RecvTimeout

\* The thread is scheduled again and again, and takes what recv_deadline
\* gives it; the clock does not stop.
SpecFlush ==
    /\ InitPropagation
    /\ [][NextFlush]_vars
    /\ WF_vars(Elapse)
    /\ WF_vars(RecvPropagateOperations)
    /\ WF_vars(RecvTimeout)

(***************************************************************************)
(* ConsensusState::slot_tick, with the block statuses of the graph.        *)
(***************************************************************************)
MaxTickPeriod == 1

MaxTicks == 1

\* Block ids, as the numbers their hashes order them by.
BlockIds == 1..3

TickSlots == {s \in AllSlots : s.period <= MaxTickPeriod}

\* The statuses a block enters the graph with.
BlockStatuses == {"WaitingForSlot", "Active"}

\* What re-processing may make of a block that waited for its slot.
ProcessedStatuses == {"WaitingForDependencies", "Active", "Discarded"}

\* The order of BTreeSet<(Slot, BlockId)>: by slot, then by block id.
SlotIdLT(a, b) ==
    \/ SlotLT(a[1], b[1])
    \/ a[1] = b[1] /\ a[2] < b[2]

\* The elements of a BTreeSet<(Slot, BlockId)>, in its order.
RECURSIVE BTreeSetIter(_)
BTreeSetIter(set) ==
    IF set = {}
    THEN <<>>
    ELSE LET first == CHOOSE a \in set : \A b \in set \ {a} : SlotIdLT(a, b)
         IN  <<first>> \o BTreeSetIter(set \ {first})

\* A slip in the filter: blocks of the current slot are left to wait.
to_process_before(cs, current_slot) ==
    BTreeSetIter(
        {<<cs.blocks_state[b_id].slot, b_id>> :
             b_id \in {b \in cs.waiting_for_slot_blocks :
                          /\ b \in DOMAIN cs.blocks_state
                          /\ cs.blocks_state[b].status = "WaitingForSlot"
                          /\ SlotLT(cs.blocks_state[b].slot, current_slot)}})

\* The elements for which the time has come.
to_process(cs, current_slot) ==
    BTreeSetIter(
        {<<cs.blocks_state[b_id].slot, b_id>> :
             b_id \in {b \in cs.waiting_for_slot_blocks :
                          /\ b \in DOMAIN cs.blocks_state
                          /\ cs.blocks_state[b].status = "WaitingForSlot"
                          /\ SlotLE(cs.blocks_state[b].slot, current_slot)}})

\* BlocksState: the index of the blocks that wait for their slot.
waiting_for_slot_index(blocks) ==
    {b \in DOMAIN blocks : blocks[b].status = "WaitingForSlot"}

\* rec_process on the first k elements of the list: each gets the status
\* verdict.
rec_process(cs, list, k, verdict) ==
    LET done == {list[i][2] : i \in 1..k}
        blocks == [b \in DOMAIN cs.blocks_state |->
                      IF b \in done
                      THEN [cs.blocks_state[b] EXCEPT !.status = verdict]
                      ELSE cs.blocks_state[b]]
    IN  [blocks_state |-> blocks,
         waiting_for_slot_blocks |-> waiting_for_slot_index(blocks)]

\* The steps of slot_tick that may return an error.
TickSteps == <<"rec_process", "stats_tick", "block_db_changed">>

\* The number of ticks made.
Ticks == IF tick_outcome = <<>> THEN 0 ELSE tick_outcome[1].n

\* A block enters the graph, or a block of the graph gets another status.
RegisterBlock ==
    /\ \E b \in BlockIds, s \in TickSlots, st \in BlockStatuses :
           LET blocks == [x \in DOMAIN consensus_state.blocks_state \cup {b} |->
                             IF x = b
                             THEN [status |-> st, slot |-> s]
                             ELSE consensus_state.blocks_state[x]]
           IN  /\ b \notin DOMAIN consensus_state.blocks_state
               /\ consensus_state' =
                      [blocks_state |-> blocks,
                       waiting_for_slot_blocks |-> waiting_for_slot_index(blocks)]
    /\ UNCHANGED <<tick_outcome, sequencer, propvars, purevars>>

\* slot_tick(current_slot): failed is the number of the step that returns an
\* error (0 when none does); when rec_process fails it has processed k
\* elements.
SlotTick ==
    /\ Ticks < MaxTicks
    /\ \E current_slot \in TickSlots, failed \in 0..Len(TickSteps),
          verdict \in ProcessedStatuses :
           LET list == to_process(consensus_state, current_slot)
           IN  \E k \in 0..Len(list) :
                   /\ failed # 1 => k = Len(list)
                   /\ consensus_state' = rec_process(consensus_state, list, k, verdict)
                   /\ tick_outcome' =
                          <<[n |-> Ticks + 1,
                             current_slot |-> current_slot,
                             to_process |-> list,
                             stats_tick |-> failed \notin {1},
                             block_db_changed |-> failed \notin {1, 2},
                             result |-> IF failed = 0 THEN "Ok" ELSE TickSteps[failed]]>>
    /\ UNCHANGED <<sequencer, propvars, purevars>>

InitTick ==
    /\ Init
    /\ latest_execution_final_slot = Slot(last_start_period, thread_count - 1)

NextTick ==
    \/ RegisterBlock
    \/ SlotTick

SpecTick == InitTick /\ [][NextTick]_vars

(***************************************************************************)
(* The codecs of the block and operation messages.  A buffer is a list of  *)
(* bytes.  The codecs of the parts (varint, ids, headers, operations) are  *)
(* those of other crates.                                                  *)
(***************************************************************************)
MaxListLen == 2

MaxTag == 4

\* The hashes of the ids, headers and operations put in messages.
HashBytes == {17, 42}

\* The result of a parser: an error, or a value and the rest of the buffer.
ParseError == [ok |-> FALSE, rest |-> <<>>, value |-> <<>>]

Parsed(rest, value) == [ok |-> TRUE, rest |-> rest, value |-> value]

\* U64VarIntSerializer, for numbers below 2^14.
u64_varint_serialize(n) ==
    IF n < 128 THEN <<n>> ELSE <<128 + (n % 128), n \div 128>>

\* U64VarIntDeserializer::new(Included(0), Included(max)), on at most two
\* bytes: it refuses an encoding that is not the shortest and a number above
\* max.
u64_varint_deserialize(buffer, max) ==
    LET read == IF buffer = <<>>
                THEN ParseError
                ELSE IF buffer[1] < 128
                     THEN Parsed(Tail(buffer), buffer[1])
                     ELSE IF Len(buffer) >= 2 /\ buffer[2] < 128 /\ buffer[2] > 0
                          THEN Parsed(SubSeq(buffer, 3, Len(buffer)),
                                      (buffer[1] - 128) + 128 * buffer[2])
                          ELSE ParseError
    IN  IF read.ok /\ read.value > max THEN ParseError ELSE read

u64_MAX == 16383

\* The kinds of the parts of a message, the bytes each is written in and
\* whether it starts with a version number.
PartKinds == {"BlockId", "OperationId", "OperationPrefixId", "SecuredHeader",
              "SecureShareOperation"}

has_version(kind) == kind \in {"BlockId", "OperationId"}

\* The serializer of a part: the version 0 where there is one, then the hash.
serialize_part(kind, h) ==
    IF has_version(kind) THEN u64_varint_serialize(0) \o <<h>> ELSE <<h>>

\* The deserializer of a part.
deserialize_part(kind, buffer) ==
    IF has_version(kind)
    THEN LET version == u64_varint_deserialize(buffer, u64_MAX)
         IN  IF version.ok /\ version.value = 0 /\ version.rest # <<>>
             THEN Parsed(Tail(version.rest), Head(version.rest))
             ELSE ParseError
    ELSE IF buffer = <<>> THEN ParseError ELSE Parsed(Tail(buffer), Head(buffer))

\* The length, then each element.
RECURSIVE serialize_elements(_, _)
serialize_elements(kind, list) ==
    IF list = <<>>
    THEN <<>>
    ELSE serialize_part(kind, Head(list)) \o serialize_elements(kind, Tail(list))

serialize_list(kind, list) ==
    u64_varint_serialize(Len(list)) \o serialize_elements(kind, list)

RECURSIVE deserialize_elements(_, _, _, _)
deserialize_elements(kind, buffer, n, acc) ==
    IF n = 0
    THEN Parsed(buffer, acc)
    ELSE LET element == deserialize_part(kind, buffer)
         IN  IF element.ok
             THEN deserialize_elements(kind, element.rest, n - 1,
                                       Append(acc, element.value))
             ELSE ParseError

\* A slip in the list deserializers: the bound is exclusive.
deserialize_list_below(kind, buffer, max) ==
    LET length == u64_varint_deserialize(buffer, max)
    IN  IF length.ok /\ length.value < max
        THEN deserialize_elements(kind, length.rest, length.value, <<>>)
        ELSE ParseError

\* OperationIdsDeserializer, OperationPrefixIdsDeserializer and
\* OperationsDeserializer: a length of at most max, then the elements.
deserialize_list(kind, buffer, max) ==
    LET length == u64_varint_deserialize(buffer, max)
    IN  IF length.ok
        THEN deserialize_elements(kind, length.rest, length.value, <<>>)
        ELSE ParseError

\* block_handler: MessageTypeId and BlockInfoType as u64.
BlockMessageTypeId ==
    [Header |-> 0, DataRequest |-> 1, DataResponse |-> 2]

BlockInfoType ==
    [Header |-> 0, OperationIds |-> 1, Operations |-> 2, NotFound |-> 3]

\* operation_handler: MessageTypeId as u64.
OperationMessageTypeId ==
    [OperationsAnnouncement |-> 0, AskForOperations |-> 1, Operations |-> 2]

\* TryFromPrimitive: the name of a number in an enum, "" when it has none.
try_from(enum, raw_id) ==
    IF \E name \in DOMAIN enum : enum[name] = raw_id
    THEN CHOOSE name \in DOMAIN enum : enum[name] = raw_id
    ELSE ""

\* A message: its type, and the fields its type has (0, "" and <<>> fill the
\* others).
Message(type, block_id, info, header, list) ==
    [type |-> type, block_id |-> block_id, info |-> info, header |-> header,
     list |-> list]

Lists == UNION {[1..n -> HashBytes] : n \in 0..MaxListLen}

BlockMessages ==
    {Message("Header", 0, "", h, <<>>) : h \in HashBytes}
        \cup {Message("DataRequest", b, i, 0, <<>>) :
                  b \in HashBytes, i \in {"Header", "OperationIds"}}
        \cup {Message("DataRequest", b, "Operations", 0, l) :
                  b \in HashBytes, l \in Lists}
        \cup {Message("DataResponse", b, "Header", h, <<>>) :
                  b \in HashBytes, h \in HashBytes}
        \cup {Message("DataResponse", b, i, 0, l) :
                  b \in HashBytes, i \in {"OperationIds", "Operations"}, l \in Lists}
        \cup {Message("DataResponse", b, "NotFound", 0, <<>>) : b \in HashBytes}

OperationMessages ==
    {Message(t, 0, "", 0, l) : t \in DOMAIN OperationMessageTypeId, l \in Lists}

\* BlockMessageSerializer::serialize
serialize_block_message(value) ==
    u64_varint_serialize(BlockMessageTypeId[value.type]) \o
        CASE value.type = "Header" ->
                 serialize_part("SecuredHeader", value.header)
          [] value.type = "DataRequest" ->
                 serialize_part("BlockId", value.block_id) \o
                     u64_varint_serialize(BlockInfoType[value.info]) \o
                     (IF value.info = "Operations"
                      THEN serialize_list("OperationId", value.list)
                      ELSE <<>>)
          [] value.type = "DataResponse" ->
                 serialize_part("BlockId", value.block_id) \o
                     u64_varint_serialize(BlockInfoType[value.info]) \o
                     CASE value.info = "Header" ->
                              serialize_part("SecuredHeader", value.header)
                       [] value.info = "OperationIds" ->
                              serialize_list("OperationId", value.list)
                       [] value.info = "Operations" ->
                              serialize_list("SecureShareOperation", value.list)
                       [] value.info = "NotFound" -> <<>>

\* The infos of a DataRequest, after the block id.
deserialize_ask_for_block_info(args, block_id, input) ==
    LET raw_id == u64_varint_deserialize(input, u64_MAX)
        info_type == try_from(BlockInfoType, raw_id.value)
    IN  IF ~raw_id.ok \/ info_type = ""
        THEN ParseError
        ELSE CASE info_type \in {"Header", "OperationIds"} ->
                      Parsed(raw_id.rest,
                             Message("DataRequest", block_id, info_type, 0, <<>>))
               [] info_type = "Operations" ->
                      LET operation_ids ==
                              deserialize_list("OperationId", raw_id.rest,
                                               args.max_operations_per_block)
                      IN  IF operation_ids.ok
                          THEN Parsed(operation_ids.rest,
                                      Message("DataRequest", block_id, "Operations",
                                              0, operation_ids.value))
                          ELSE ParseError
               [] info_type = "NotFound" -> ParseError

\* A slip in the infos of a DataResponse: NotFound is refused.
deserialize_block_info_reply_found(args, block_id, input) ==
    LET raw_id == u64_varint_deserialize(input, u64_MAX)
        info_type == try_from(BlockInfoType, raw_id.value)
    IN  IF ~raw_id.ok \/ info_type \in {"", "NotFound"}
        THEN ParseError
        ELSE LET kind == CASE info_type = "Header" -> "SecuredHeader"
                           [] info_type = "OperationIds" -> "OperationId"
                           [] info_type = "Operations" -> "SecureShareOperation"
                 body == IF info_type = "Header"
                         THEN deserialize_part(kind, raw_id.rest)
                         ELSE deserialize_list(kind, raw_id.rest,
                                               args.max_operations_per_block)
             IN  IF ~body.ok
                 THEN ParseError
                 ELSE IF info_type = "Header"
                      THEN Parsed(body.rest,
                                  Message("DataResponse", block_id, "Header",
                                          body.value, <<>>))
                      ELSE Parsed(body.rest,
                                  Message("DataResponse", block_id, info_type,
                                          0, body.value))

\* The infos of a DataResponse, after the block id.
deserialize_block_info_reply(args, block_id, input) ==
    LET raw_id == u64_varint_deserialize(input, u64_MAX)
        info_type == try_from(BlockInfoType, raw_id.value)
    IN  IF ~raw_id.ok \/ info_type = ""
        THEN ParseError
        ELSE CASE info_type = "Header" ->
                      LET header == deserialize_part("SecuredHeader", raw_id.rest)
                      IN  IF header.ok
                          THEN Parsed(header.rest,
                                      Message("DataResponse", block_id, "Header",
                                              header.value, <<>>))
                          ELSE ParseError
               [] info_type = "OperationIds" ->
                      LET operation_ids ==
                              deserialize_list("OperationId", raw_id.rest,
                                               args.max_operations_per_block)
                      IN  IF operation_ids.ok
                          THEN Parsed(operation_ids.rest,
                                      Message("DataResponse", block_id, "OperationIds",
                                              0, operation_ids.value))
                          ELSE ParseError
               [] info_type = "Operations" ->
                      LET operations ==
                              deserialize_list("SecureShareOperation", raw_id.rest,
                                               args.max_operations_per_block)
                      IN  IF operations.ok
                          THEN Parsed(operations.rest,
                                      Message("DataResponse", block_id, "Operations",
                                              0, operations.value))
                          ELSE ParseError
               [] info_type = "NotFound" ->
                      Parsed(raw_id.rest,
                             Message("DataResponse", block_id, "NotFound", 0, <<>>))

\* BlockMessageDeserializer::deserialize
deserialize_block_message(args, buffer) ==
    LET raw_id == u64_varint_deserialize(buffer, u64_MAX)
        id == try_from(BlockMessageTypeId, raw_id.value)
    IN  IF ~raw_id.ok \/ id = ""
        THEN ParseError
        ELSE IF id = "Header"
             THEN LET header == deserialize_part("SecuredHeader", raw_id.rest)
                  IN  IF header.ok
                      THEN Parsed(header.rest,
                                  Message("Header", 0, "", header.value, <<>>))
                      ELSE ParseError
             ELSE LET block_id == deserialize_part("BlockId", raw_id.rest)
                  IN  IF ~block_id.ok
                      THEN ParseError
                      ELSE IF id = "DataRequest"
                           THEN deserialize_ask_for_block_info(args, block_id.value,
                                                               block_id.rest)
                           ELSE deserialize_block_info_reply(args, block_id.value,
                                                             block_id.rest)

\* OperationMessageSerializer::serialize
serialize_operation_message(value) ==
    u64_varint_serialize(OperationMessageTypeId[value.type]) \o
        (IF value.type = "Operations"
         THEN serialize_list("SecureShareOperation", value.list)
         ELSE serialize_list("OperationPrefixId", value.list))

\* OperationMessageDeserializer::deserialize
deserialize_operation_message(args, buffer) ==
    LET raw_id == u64_varint_deserialize(buffer, u64_MAX)
        id == try_from(OperationMessageTypeId, raw_id.value)
    IN  IF ~raw_id.ok \/ id = ""
        THEN ParseError
        ELSE LET list == IF id = "Operations"
                         THEN deserialize_list("SecureShareOperation", raw_id.rest,
                                               args.max_operations)
                         ELSE deserialize_list("OperationPrefixId", raw_id.rest,
                                               args.max_operations_prefix_ids)
             IN  IF list.ok
                 THEN Parsed(list.rest, Message(id, 0, "", 0, list.value))
                 ELSE ParseError

\* The limits given to the deserializers.
BlockMessageDeserializerArgs ==
    [max_operations_per_block : 0..MaxListLen]

OperationMessageDeserializerArgs ==
    [max_operations_prefix_ids : 0..MaxListLen, max_operations : 0..MaxListLen]

\* The n-th byte of the buffer replaced by b.
WithByte(buffer, n, b) == [buffer EXCEPT ![n] = b]

\* A block message is serialized, and deserialized under some limits.
BlockRoundTrip ==
    /\ codec_call = <<>>
    /\ \E message \in BlockMessages, args \in BlockMessageDeserializerArgs :
           LET buffer == serialize_block_message(message)
           IN  codec_call' =
                   <<[codec |-> "block", call |-> "round trip", message |-> message,
                      args |-> args, buffer |-> buffer,
                      result |-> deserialize_block_message(args, buffer)]>>
    /\ UNCHANGED <<sequencer, propvars, consvars, address_call>>

\* An operation message is serialized, and deserialized under some limits.
OperationRoundTrip ==
    /\ codec_call = <<>>
    /\ \E message \in OperationMessages, args \in OperationMessageDeserializerArgs :
           LET buffer == serialize_operation_message(message)
           IN  codec_call' =
                   <<[codec |-> "operation", call |-> "round trip", message |-> message,
                      args |-> args, buffer |-> buffer,
                      result |-> deserialize_operation_message(args, buffer)]>>
    /\ UNCHANGED <<sequencer, propvars, consvars, address_call>>

\* A frame is deserialized as a block message: the serialization of a
\* DataRequest or DataResponse with its message tag and its info tag replaced
\* (the info tag is the fourth byte, after the tag and the block id).
BlockFrame ==
    /\ codec_call = <<>>
    /\ \E message \in BlockMessages, tag \in 0..MaxTag, info_tag \in 0..(MaxTag + 1) :
           /\ message.type # "Header"
           /\ LET args == [max_operations_per_block |-> MaxListLen]
                  buffer == WithByte(WithByte(serialize_block_message(message), 1, tag),
                                     4, info_tag)
              IN  codec_call' =
                      <<[codec |-> "block", call |-> "frame", message |-> message,
                         args |-> args, buffer |-> buffer,
                         result |-> deserialize_block_message(args, buffer)]>>
    /\ UNCHANGED <<sequencer, propvars, consvars, address_call>>

\* A frame is deserialized as an operation message: the serialization of a
\* message with its tag replaced.
OperationFrame ==
    /\ codec_call = <<>>
    /\ \E message \in OperationMessages, tag \in 0..MaxTag :
           LET args == [max_operations_prefix_ids |-> MaxListLen,
                        max_operations |-> MaxListLen]
               buffer == WithByte(serialize_operation_message(message), 1, tag)
           IN  codec_call' =
                   <<[codec |-> "operation", call |-> "frame", message |-> message,
                      args |-> args, buffer |-> buffer,
                      result |-> deserialize_operation_message(args, buffer)]>>
    /\ UNCHANGED <<sequencer, propvars, consvars, address_call>>

InitCodec ==
    /\ Init
    /\ latest_execution_final_slot = Slot(last_start_period, thread_count - 1)

NextCodec ==
    \/ BlockRoundTrip
    \/ OperationRoundTrip
    \/ BlockFrame
    \/ OperationFrame

SpecCodec == InitCodec /\ [][NextCodec]_vars

(***************************************************************************)
(* Address::from_str and Display.  A string is a list of characters; the   *)
(* hash has HASH_SIZE_BYTES bytes, each 0 or 1.                            *)
(***************************************************************************)
HASH_SIZE_BYTES == 2

MaxPayloadLen == 4

ADDRESS_PREFIX == "A"

\* The alphabet of base 58 has no "0" and no "_"; the digit of a byte.
Base58Digit == <<"1", "2">>

AddressBytes == {0, 1}

\* The checksum of base58check, as one byte.
checksum(bytes) == IF bytes = <<>> THEN 0 ELSE (bytes[1] + Len(bytes)) % 2

\* bs58::encode(bytes).with_check().into_string()
bs58_encode_with_check(bytes) ==
    [i \in 1..(Len(bytes) + 1) |->
        IF i <= Len(bytes)
        THEN Base58Digit[bytes[i] + 1]
        ELSE Base58Digit[checksum(bytes) + 1]]

\* The byte of a digit of the alphabet.
digit_value(c) == CHOOSE b \in AddressBytes : Base58Digit[b + 1] = c

\* bs58::decode(s).with_check(None).into_vec(): an error for a character
\* outside the alphabet, for a string too short to hold a checksum and for a
\* wrong checksum.
bs58_decode_with_check(s) ==
    IF \E i \in DOMAIN s : s[i] \notin Range(Base58Digit)
    THEN ParseError
    ELSE IF s = <<>>
         THEN ParseError
         ELSE LET bytes == [i \in 1..(Len(s) - 1) |-> digit_value(s[i])]
              IN  IF digit_value(s[Len(s)]) = checksum(bytes)
                  THEN Parsed(<<>>, bytes)
                  ELSE ParseError

\* The results of from_str.
AddressOk(variant, hash) ==
    [ok |-> TRUE, variant |-> variant, version |-> 0, hash |-> hash, error |-> ""]

AddressErr(error) ==
    [ok |-> FALSE, variant |-> "", version |-> 0, hash |-> <<>>, error |-> error]

\* UserAddress::from_bytes and SCAddress::from_bytes
from_bytes(variant, data) ==
    IF Len(data) = HASH_SIZE_BYTES
    THEN AddressOk(variant, data)
    ELSE AddressErr("BufferError")

\* UserAddress::from_str_without_prefixed_type and the same of SCAddress
from_str_without_prefixed_type(variant, s) ==
    LET decoded_bs58_check == bs58_decode_with_check(s)
    IN  IF ~decoded_bs58_check.ok
        THEN AddressErr("AddressParseError")
        ELSE LET version == u64_varint_deserialize(decoded_bs58_check.value, u64_MAX)
             IN  IF ~version.ok
                 THEN AddressErr("AddressParseError")
                 ELSE IF version.value = 0
                      THEN from_bytes(variant, version.rest)
                      ELSE AddressErr("AddressParseError")

\* Address::from_str
from_str(s) ==
    IF s = <<>> \/ Head(s) # ADDRESS_PREFIX
    THEN AddressErr("AddressParseError")
    ELSE IF Tail(s) = <<>>
         THEN AddressErr("AddressParseError")
         ELSE CASE s[2] = "U" ->
                       from_str_without_prefixed_type("User", SubSeq(s, 3, Len(s)))
                [] s[2] = "S" ->
                       from_str_without_prefixed_type("SC", SubSeq(s, 3, Len(s)))
                [] OTHER -> AddressErr("AddressParseError")

\* Display for Address
to_string(address) ==
    <<ADDRESS_PREFIX, IF address.variant = "User" THEN "U" ELSE "S">> \o
        bs58_encode_with_check(u64_varint_serialize(address.version) \o address.hash)

\* The strings given to from_str: a prefix of up to two characters, then the
\* base58check of some bytes, as it is, with its last character changed or
\* with a character outside the alphabet put after it.
Payloads == UNION {[1..n -> AddressBytes] : n \in 0..MaxPayloadLen}

AddressBodies ==
    UNION {{bs58_encode_with_check(bytes),
            [bs58_encode_with_check(bytes) EXCEPT ![Len(bytes) + 1] =
                Base58Digit[2 - checksum(bytes)]],
            Append(bs58_encode_with_check(bytes), "_")} : bytes \in Payloads}

AddressStrings ==
    {<<>>, <<"A">>, <<"U">>} \cup
        {<<a, t>> \o body : a \in {"A", "B"}, t \in {"U", "S", "C"},
                            body \in AddressBodies}

\* from_str is called on a string.
ParseAddress ==
    /\ address_call = <<>>
    /\ \E s \in AddressStrings :
           address_call' = <<[s |-> s, result |-> from_str(s)]>>
    /\ UNCHANGED <<sequencer, propvars, consvars, codec_call>>

InitAddress ==
    /\ Init
    /\ latest_execution_final_slot = Slot(last_start_period, thread_count - 1)

NextAddress == ParseAddress

SpecAddress == InitAddress /\ [][NextAddress]_vars

(***************************************************************************)
(* Properties.                                                             *)
(***************************************************************************)
\* The block id the sequence holds for a slot: None for a miss and for a slot
\* outside the sequence.
ContentAt(seq, s) ==
    IF seq = <<>> THEN NoBlock ELSE content_of(get_slot(seq, s))

\* The slots whose speculative execution stands.
InSpeculativeRange(s) ==
    /\ SlotLT(latest_executed_final_slot, s)
    /\ SlotLE(s, latest_executed_candidate_slot)

\* C1: no stale speculative execution.  For every slot after the final
\* execution cursor and up to the candidate execution cursor, the block id the
\* callback was last given for the slot is the block id the sequence holds for
\* it now (None for a miss or a slot outside the sequence).
C1_NoStaleSpeculativeExecution ==
    \A s \in AllSlots :
        InSpeculativeRange(s) => executed[s] = ContentAt(sequence, s)

\* C1 witness: an update has rewritten history while the speculative execution
\* of a block still stands.
C1_Witness ==
    /\ status = "ok"
    /\ last_call.overwritten # {}
    /\ \E s \in AllSlots : InSpeculativeRange(s) /\ executed[s] \in Blocks

\* C2: final slots are never rewritten.  A slot that is consensus-final before
\* a step is, as long as it is still in the sequence after the step,
\* consensus-final with the same block id, and the step reports no history
\* overwrite for it.
C2_FinalSlotsNeverRewritten ==
    [][\A i \in 1..Len(sequence) :
          sequence[i].consensus_final =>
              /\ sequence[i].slot \notin last_call'.overwritten
              /\ \A j \in 1..Len(sequence') :
                     sequence'[j].slot = sequence[i].slot =>
                         /\ sequence'[j].consensus_final
                         /\ sequence'[j].content = sequence[i].content]_vars

\* C2 witness: after an incremental update that rewrote some slot, the sequence
\* holds a consensus-final slot with a block that was not rewritten.
C2_Witness ==
    /\ status = "ok"
    /\ last_call.overwritten # {}
    /\ \E i \in 1..Len(sequence) :
           /\ sequence[i].consensus_final
           /\ sequence[i].content \in Blocks
           /\ sequence[i].slot \notin last_call.overwritten

\* C3: the final execution cursor never passes the latest SCE-final slot.
C3_ExecutedFinalAtMostExecutionFinal ==
    SlotLE(latest_executed_final_slot, latest_execution_final_slot)

\* C4: the candidate execution cursor is never before the final execution
\* cursor.
C4_CandidateCursorAtLeastFinalCursor ==
    SlotLE(latest_executed_final_slot, latest_executed_candidate_slot)

\* C5: every SlotInfo of the sequence that is execution_final is
\* consensus_final.
C5_ExecutionFinalImpliesConsensusFinal ==
    \A i \in 1..Len(sequence) :
        sequence[i].execution_final => sequence[i].consensus_final

\* C6: the sequence is contiguous: each entry's slot is the next slot of the
\* entry before it.
C6_SequenceContiguous ==
    \A i \in 1..(Len(sequence) - 1) :
        sequence[i + 1].slot = get_next_slot(sequence[i].slot)

\* C6 witness: a sequence of three slots or more that an incremental update has
\* rebuilt.
C6_Witness ==
    /\ status = "ok"
    /\ n_updates = MaxUpdates
    /\ last_call.overwritten # {}
    /\ Len(sequence) >= 3

\* C7: the execution_final entries are a prefix of the sequence.
C7_ExecutionFinalPrefix ==
    \A i \in 1..Len(sequence) :
        ~sequence[i].execution_final =>
            \A j \in (i + 1)..Len(sequence) : ~sequence[j].execution_final

\* C7 witness: a sequence with an SCE-final prefix followed by a consensus-final
\* slot that is not SCE-final.
C7_Witness ==
    /\ Len(sequence) >= 3
    /\ sequence[1].execution_final
    /\ \E i \in 2..(Len(sequence) - 1) :
           /\ ~sequence[i].execution_final
           /\ sequence[i + 1].consensus_final

\* C8: final dispatch is a strict linear extension.  A step that invokes the
\* callback with is_final = true does so for the slot next after the final
\* execution cursor and moves the cursor to that slot; no other step changes
\* the final execution cursor.
C8_FinalDispatchLinear ==
    [][/\ \A k \in 1..Len(last_call'.calls) :
              last_call'.calls[k].is_final =>
                  /\ last_call'.calls[k].slot =
                         get_next_slot(latest_executed_final_slot)
                  /\ latest_executed_final_slot' = last_call'.calls[k].slot
       /\ latest_executed_final_slot' # latest_executed_final_slot =>
              /\ Len(last_call'.calls) = 1
              /\ last_call'.calls[1].is_final]_vars

\* C8 witness: a final dispatch that followed an update has moved the final
\* execution cursor past the final_cursor the sequencer started from.
C8_Witness ==
    /\ n_updates > 0
    /\ last_call.some
    /\ last_call.calls[1].is_final
    /\ latest_executed_final_slot = last_call.calls[1].slot
    /\ latest_executed_final_slot \notin FinalCursors

\* C9: dispatch priority final > candidate.  When the slot next after the final
\* execution cursor is in the sequence and SCE-final, run_task_with invokes
\* the callback once, with is_final = true, on that slot and its content, and
\* a candidate cursor at or after that slot is left unchanged.
C9_FinalBeforeCandidate ==
    [][(/\ RunTask
        /\ sequence # <<>>
        /\ final_task(sequence, latest_executed_final_slot)) =>
           /\ last_call'.calls =
                  <<Invocation(TRUE, get_next_slot(latest_executed_final_slot),
                               ContentAt(sequence,
                                         get_next_slot(latest_executed_final_slot)))>>
           /\ SlotLE(get_next_slot(latest_executed_final_slot),
                     latest_executed_candidate_slot) =>
                  latest_executed_candidate_slot' = latest_executed_candidate_slot]_vars

\* C9 witness: a final dispatch has just been made although a candidate slot
\* was ready too, the candidate cursor being ahead of the dispatched slot.
C9_Witness ==
    /\ last_call.some
    /\ last_call.calls[1].is_final
    /\ SlotLT(last_call.calls[1].slot, latest_executed_candidate_slot)
    /\ candidate_task(latest_executed_candidate_slot, now)

\* C10: a run_task_with call invokes the callback at most once; it returns None
\* exactly when the callback was not invoked, which is exactly when the
\* sequence is empty or no final slot is ready and the time cursor is before
\* the slot next after the candidate cursor; the sequence, the watermarks and
\* the cursors are then unchanged.
C10_AtMostOneDispatch ==
    [][RunTask =>
           /\ Len(last_call'.calls) <= 1
           /\ last_call'.some <=> last_call'.calls # <<>>
           /\ ~last_call'.some <=>
                  \/ sequence = <<>>
                  \/ /\ ~final_task(sequence, latest_executed_final_slot)
                     /\ SlotLT(get_time_cursor(now),
                               get_next_slot(latest_executed_candidate_slot))
           /\ ~last_call'.some => UNCHANGED seqvars]_vars

\* C10 witness: a call has just dispatched the one slot that was ready; with
\* the sequence not empty nothing is ready now, so the next call returns None.
C10_Witness ==
    /\ status = "ok"
    /\ sequence # <<>>
    /\ last_call.some
    /\ Len(last_call.calls) = 1
    /\ next_task(sequence, latest_executed_final_slot,
                 latest_executed_candidate_slot, now) = "none"

\* C11: is_task_available agrees with run_task_with.  At the same clock
\* reading, is_task_available returns true exactly when the run_task_with call
\* that follows invokes the callback and returns Some.
C11_TaskAvailableAgrees ==
    [][RunTask =>
           (is_task_available(sequence, latest_executed_final_slot,
                              latest_executed_candidate_slot, now)
                <=> (last_call'.some /\ Len(last_call'.calls) = 1))]_vars

\* C11 witness: a run_task_with call has just dispatched a candidate slot and
\* is_task_available is now false on a sequence that is not empty.
C11_Witness ==
    /\ status = "ok"
    /\ sequence # <<>>
    /\ last_call.some
    /\ ~last_call.calls[1].is_final
    /\ ~is_task_available(sequence, latest_executed_final_slot,
                          latest_executed_candidate_slot, now)

\* The slots of the sequence after a step whose content the step has changed
\* (a slot that was not in the sequence before counts as a miss).
Rewritten ==
    {s \in AllSlots :
        /\ get_slot(sequence', s) # <<>>
        /\ ContentAt(sequence', s) # ContentAt(sequence, s)}

\* An update call on a sequence that is not empty, which returned.
IncrementalUpdateStep ==
    /\ n_updates' = n_updates + 1
    /\ sequence # <<>>
    /\ status' = "ok"

\* C12: exact rollback.  When an incremental update rewrites the content of
\* slots, the candidate cursor is left unchanged if it is before all of them;
\* otherwise it is at or after the earliest rewritten slot and ends exactly
\* on the slot before that one.
C12_ExactRollback ==
    [][IncrementalUpdateStep =>
           IF \A s \in Rewritten : SlotLT(latest_executed_candidate_slot, s)
           THEN latest_executed_candidate_slot' = latest_executed_candidate_slot
           ELSE /\ SlotLE(SlotSetMin(Rewritten), latest_executed_candidate_slot)
                /\ latest_executed_candidate_slot' =
                       get_prev_slot(SlotSetMin(Rewritten))]_vars

\* C12 witness: an update has rewritten two slots or more, one of them not
\* consensus-final, and the candidate cursor is on the slot before the
\* earliest of them.
C12_Witness ==
    /\ status = "ok"
    /\ Cardinality(last_call.overwritten) >= 2
    /\ latest_executed_candidate_slot =
           get_prev_slot(SlotSetMin(last_call.overwritten))
    /\ \E i \in 1..Len(sequence) :
           /\ sequence[i].slot \in last_call.overwritten
           /\ ~sequence[i].consensus_final

\* C13: final-dispatch content is the consensus-final content.  When the
\* callback is invoked with is_final = true for a slot, the block id it gets
\* is one that an update call gave for the slot in its final blocks, and None
\* when no update call gave a final block for the slot.
C13_FinalDispatchContent ==
    \A k \in 1..Len(last_call.calls) :
        last_call.calls[k].is_final =>
            IF final_blocks[last_call.calls[k].slot] = {}
            THEN last_call.calls[k].content = NoBlock
            ELSE last_call.calls[k].content \in final_blocks[last_call.calls[k].slot]

\* min_useful of the claim: the earliest of the watermarks and the cursors.
MinUseful ==
    CHOOSE m \in {latest_consensus_final_slots[t] :
                      t \in DOMAIN latest_consensus_final_slots}
                 \cup {latest_execution_final_slot, latest_executed_final_slot,
                       latest_executed_candidate_slot} :
        /\ \A t \in DOMAIN latest_consensus_final_slots :
               SlotLE(m, latest_consensus_final_slots[t])
        /\ SlotLE(m, latest_execution_final_slot)
        /\ SlotLE(m, latest_executed_final_slot)
        /\ SlotLE(m, latest_executed_candidate_slot)

\* The entry is at or after min_useful.
IsUseful(info) == SlotLE(MinUseful, info.slot)

\* C14: cleanup removes exactly the front entries before min_useful.  A call
\* of cleanup_sequence leaves, in order and unchanged, the entries whose slot
\* is at or after min_useful, leaves no entry whose slot is before it, and
\* changes no watermark and no cursor.
C14_CleanupExact ==
    [][/\ sequence' = SelectSeq(sequence, IsUseful)
       /\ \A j \in 1..Len(sequence') : ~SlotLT(sequence'[j].slot, MinUseful)
       /\ \A i \in 1..Len(sequence) :
              SlotLE(MinUseful, sequence[i].slot) =>
                  \E j \in 1..Len(sequence') : sequence'[j] = sequence[i]
       /\ UNCHANGED <<latest_consensus_final_slots, latest_execution_final_slot,
                      latest_executed_final_slot,
                      latest_executed_candidate_slot>>]_vars

\* C14 witness: cleanup_sequence has removed entries from the front of the
\* sequence it was given and has kept others.
C14_Witness ==
    /\ last_update # NoInput
    /\ sequence # <<>>
    /\ Len(last_update[1]) >= Len(sequence) + 2
    /\ sequence[1].slot = MinUseful

\* The slot next after the final execution cursor is in the sequence and
\* SCE-final.
FinalSlotReady ==
    \E i \in 1..Len(sequence) :
        /\ sequence[i].slot = get_next_slot(latest_executed_final_slot)
        /\ sequence[i].execution_final

\* C15: the candidate branch.  When the sequence is not empty, no final slot
\* is ready and the time cursor has reached the slot s next after the
\* candidate cursor, run_task_with invokes the callback once with
\* (false, s, content of s in the sequence, None for a miss or a slot outside
\* the sequence), sets the candidate cursor to s and changes neither the
\* sequence nor the other cursors nor the watermarks.
C15_CandidateBranch ==
    [][(/\ RunTask
        /\ sequence # <<>>
        /\ ~FinalSlotReady
        /\ SlotLE(get_next_slot(latest_executed_candidate_slot),
                  get_time_cursor(now))) =>
           /\ last_call'.calls =
                  <<Invocation(FALSE,
                               get_next_slot(latest_executed_candidate_slot),
                               ContentAt(sequence,
                                         get_next_slot(latest_executed_candidate_slot)))>>
           /\ last_call'.some
           /\ latest_executed_candidate_slot' =
                  get_next_slot(latest_executed_candidate_slot)
           /\ UNCHANGED <<sequence, latest_consensus_final_slots,
                          latest_execution_final_slot,
                          latest_executed_final_slot>>]_vars

\* C15 witness: a candidate dispatch has just been made for a slot past the
\* back of a sequence whose front holds a block, and the callback got None.
C15_Witness ==
    /\ last_call.some
    /\ ~last_call.calls[1].is_final
    /\ latest_executed_candidate_slot = last_call.calls[1].slot
    /\ sequence # <<>>
    /\ sequence[1].content \in Blocks
    /\ SlotLT(sequence[Len(sequence)].slot, last_call.calls[1].slot)
    /\ last_call.calls[1].content = NoBlock

\* C16: bootstrap no-op.  While the sequence is empty, an update call whose
\* final blocks are empty changes nothing, whatever blockclique and metadata
\* it carries; the sequence leaves the empty state only by an update call
\* that carries a final block; and while it is empty is_task_available is
\* false and run_task_with returns None without invoking the callback.
C16_BootstrapNoOp ==
    [][sequence = <<>> =>
           /\ (last_update' # NoInput /\ DOMAIN last_update'[1] = {}) =>
                  /\ UNCHANGED seqvars
                  /\ status' = status
           /\ sequence' # <<>> =>
                  /\ last_update' # NoInput
                  /\ DOMAIN last_update'[1] # {}
           /\ ~is_task_available(sequence, latest_executed_final_slot,
                                 latest_executed_candidate_slot, now)
           /\ RunTask =>
                  /\ ~last_call'.some
                  /\ last_call'.calls = <<>>
                  /\ UNCHANGED seqvars]_vars

\* C16 witness: the sequence is still empty after an update call that carried
\* no final block but a blockclique entry and metadata, at a time when the
\* slot after the candidate cursor is not after the time cursor.
C16_Witness ==
    /\ status = "ok"
    /\ sequence = <<>>
    /\ last_update # NoInput
    /\ DOMAIN last_update[1] = {}
    /\ last_update[2].some
    /\ DOMAIN last_update[2].map # {}
    /\ last_update[3] # {}
    /\ candidate_task(latest_executed_candidate_slot, now)

\* The finality rule as the claim states it: s is at or before the watermark
\* of its thread, or some watermark w is not before s and is thread_count
\* slots or more after it.
HorizonFinal(w, s) ==
    \/ SlotLE(s, w[s.thread])
    \/ \E t \in DOMAIN w :
           /\ ~SlotLT(w[t], s)
           /\ (w[t].period - s.period) * thread_count + w[t].thread - s.thread
                  >= thread_count

\* The watermarks of the example of the claim.
HorizonExample == [t \in 0..(thread_count - 1) |->
                      IF t = 0 THEN Slot(0, 0) ELSE Slot(3, 1)]

\* C17: cross-thread finality horizon.  The test of update agrees with the
\* rule for every slot under the watermarks of every state, every entry of
\* the sequence an incremental update leaves is consensus-final exactly when
\* the rule holds of it under the new watermarks, and with the watermarks
\* [(0,0),(3,1)] the slot (1,0) is final.
C17_FinalityHorizon ==
    [][/\ \A s \in AllSlots :
              new_consensus_final(latest_consensus_final_slots, s)
                  <=> HorizonFinal(latest_consensus_final_slots, s)
       /\ IncrementalUpdateStep =>
              \A j \in 1..Len(sequence') :
                  sequence'[j].consensus_final
                      <=> HorizonFinal(latest_consensus_final_slots',
                                       sequence'[j].slot)
       /\ new_consensus_final(HorizonExample, Slot(1, 0))
       /\ ~SlotLE(Slot(1, 0), HorizonExample[0])]_vars

\* C17 witness: an incremental update has left a consensus-final entry that is
\* after the watermark of its thread, before an entry that is not final
\* although a watermark of the other thread is after it.
C17_Witness ==
    /\ status = "ok"
    /\ n_updates >= 2
    /\ \E i \in 1..Len(sequence) :
           /\ sequence[i].consensus_final
           /\ SlotLT(latest_consensus_final_slots[sequence[i].slot.thread],
                     sequence[i].slot)
    /\ \E j \in 1..Len(sequence), t \in DOMAIN latest_consensus_final_slots :
           /\ ~sequence[j].consensus_final
           /\ SlotLT(sequence[j].slot, latest_consensus_final_slots[t])

\* The state right after the first update of S1.
AfterS1 == status = "ok" /\ n_updates = 1 /\ last_update = S1Input

\* C19 as the claim states it: after the first update of S1 the sequence spans
\* (0,0)..(1,1) and the three slots of the update hold their block.
C19_S1SpansFourSlots ==
    AfterS1 =>
        /\ sequence # <<>>
        /\ sequence[1].slot = Slot(0, 0)
        /\ sequence[Len(sequence)].slot = Slot(1, 1)
        /\ \A s \in DOMAIN S1Finals : ContentAt(sequence, s) = S1Finals[s]

\* C19, amended: after the first update of S1 the sequence is (0,1), (1,0):
\* it ends at the time cursor (1,0), the slot (0,0) is before every cursor and
\* has been cleaned away, (0,1) holds B1 and is final for consensus and
\* execution, (1,0) holds B2 and is final for consensus only.
C19_S1Sequence ==
    AfterS1 =>
        sequence = <<SlotInfo(Slot(0, 1), TRUE, TRUE, "B1"),
                     SlotInfo(Slot(1, 0), TRUE, FALSE, "B2")>>

\* C19 witness: the first update of S1 has just been done at the time of S1.
C19_Witness == AfterS1 /\ now = S1Now /\ Len(sequence) = 2

\* The first update of S2, done on a sequencer that has had the update of S1.
S2FirstStep ==
    /\ status = "ok"
    /\ n_updates = 1
    /\ last_update' = S2Input1

\* The consensus_final flag of slot s, FALSE outside the sequence.
ConsensusFinalAt(seq, s) ==
    \E i \in 1..Len(seq) : seq[i].slot = s /\ seq[i].consensus_final

\* C18 as the claim states it: the first update of S2 leaves (1,0) with the
\* blockclique block Bc and not consensus-final, (1,1) with Bx and
\* consensus-final, and the candidate cursor where it was.
C18_S2BlockcliqueReplaces ==
    [][S2FirstStep =>
          /\ status' = "ok"
          /\ ContentAt(sequence', Slot(1, 0)) = "Bc"
          /\ ~ConsensusFinalAt(sequence', Slot(1, 0))
          /\ ContentAt(sequence', Slot(1, 1)) = "Bx"
          /\ ConsensusFinalAt(sequence', Slot(1, 1))
          /\ latest_executed_candidate_slot' = latest_executed_candidate_slot]_vars

\* C18, amended: S1 made (1,0) consensus-final with B2, so the first update
\* of S2 recycles it: (1,0) keeps B2 and stays consensus-final, the
\* blockclique entry Bc is dropped; (1,1) is new, holds Bx and is
\* consensus-final; the candidate cursor stays where it was, unless the
\* candidate execution had reached (1,1): then it is rolled back to (1,0).
C18_S2FinalSlotKept ==
    [][S2FirstStep =>
          /\ status' = "ok"
          /\ ContentAt(sequence', Slot(1, 0)) = "B2"
          /\ ConsensusFinalAt(sequence', Slot(1, 0))
          /\ ContentAt(sequence', Slot(1, 1)) = "Bx"
          /\ ConsensusFinalAt(sequence', Slot(1, 1))
          /\ latest_executed_candidate_slot' =
                 IF SlotLT(latest_executed_candidate_slot, Slot(1, 1))
                 THEN latest_executed_candidate_slot
                 ELSE Slot(1, 0)]_vars

\* C18 witness: the first update of S2 has just been done, with no candidate
\* executed since S1.
C18_Witness ==
    /\ status = "ok"
    /\ n_updates = 2
    /\ last_update = S2Input1
    /\ latest_executed_candidate_slot = S1FinalCursor
    /\ ContentAt(sequence, Slot(1, 0)) = "B2"
    /\ ContentAt(sequence, Slot(1, 1)) = "Bx"

\* An update on a sequencer that works, its arguments kept in last_update'.
RecordedUpdateStep == status = "ok" /\ last_update' # NoInput

\* The slots where the sequence left by the step holds a block that the
\* sequence before it did not hold there.
InstalledSlots ==
    {s \in AllSlots :
        /\ ContentAt(sequence', s) # NoBlock
        /\ ContentAt(sequence', s) # ContentAt(sequence, s)}

\* Every block the arguments name is the one the sequence holds at its slot.
NamesOnlyHeldBlocks(in) ==
    /\ \A s \in DOMAIN in[1] : ContentAt(sequence, s) = in[1][s]
    /\ \A s \in DOMAIN in[2].map : ContentAt(sequence, s) = in[2].map[s]

\* C20: missing metadata is fatal.  An update that returns has installed only
\* blocks that have an entry in new_blocks_metadata, at one slot each (an
\* entry is consumed by the slot it serves); an update given no metadata at
\* all whose arguments name only blocks the sequence holds at their slots
\* returns.
C20_MissingMetadataFatal ==
    [][RecordedUpdateStep =>
          /\ status' = "ok" =>
                 /\ \A s \in InstalledSlots :
                        ContentAt(sequence', s) \in last_update'[3]
                 /\ \A s1, s2 \in InstalledSlots :
                        ContentAt(sequence', s1) = ContentAt(sequence', s2)
                            => s1 = s2
          /\ (/\ sequence # <<>>
              /\ last_update'[3] = {}
              /\ NamesOnlyHeldBlocks(last_update'))
                 => status' = "ok"]_vars

\* C20 witness: the bootstrap with one final block and no metadata has
\* failed, and produced no sequence.
C20_Witness ==
    /\ status = "panic"
    /\ n_updates = 1
    /\ sequence = <<>>
    /\ last_update # NoInput
    /\ last_update[1] # EmptyMap
    /\ last_update[2] = NoneMap
    /\ last_update[3] = {}

\* An update given no metadata has named a final block and a blockclique
\* block that the sequence held, and has returned.
UnchangedBlocksPass ==
    /\ status = "ok"
    /\ n_updates = 2
    /\ last_update # NoInput
    /\ last_update[3] = {}
    /\ last_update[1] # EmptyMap
    /\ \A s \in DOMAIN last_update[1] :
           ContentAt(sequence, s) = last_update[1][s]

\* The first slot of the rebuild walk of an update with final blocks f: the
\* earliest final block on the bootstrap path, the front of the sequence on
\* the incremental path.  The walk ends at or after every entry.
WalkStart(f) ==
    IF sequence = <<>> THEN SlotSetMin(DOMAIN f) ELSE sequence[1].slot

\* The slots the arguments of an update name.
NamedSlots(in) == DOMAIN in[1] \cup DOMAIN in[2].map

\* An entry of the arguments is at a slot before the walk.
HasResidue(in) == \E s \in NamedSlots(in) : SlotLT(s, WalkStart(in[1]))

\* The arguments give rise to no other failure: there is metadata for every
\* block and no block id is named twice.
MetadataComplete(in) ==
    /\ \A s \in DOMAIN in[1] : in[1][s] \in in[3]
    /\ \A s \in DOMAIN in[2].map : in[2].map[s] \in in[3]
    /\ \A s1, s2 \in DOMAIN in[1] : in[1][s1] = in[1][s2] => s1 = s2
    /\ \A s1 \in DOMAIN in[1], s2 \in DOMAIN in[2].map :
           in[1][s1] # in[2].map[s2]

\* An update that reaches the rebuild walk: not the no-op of an empty
\* sequencer given no final block.
WalkingUpdateStep ==
    /\ RecordedUpdateStep
    /\ sequence # <<>> \/ last_update'[1] # EmptyMap

\* C21: input residue is fatal.  An update with an entry before its walk
\* fails; an update whose entries all lie within the walk, with metadata for
\* each, does not fail.
C21_ResidueFatal ==
    [][WalkingUpdateStep =>
          /\ HasResidue(last_update') => status' = "panic"
          /\ (~HasResidue(last_update') /\ MetadataComplete(last_update'))
                 => status' = "ok"]_vars

\* The part of C21 that the code keeps: beside the bootstrap given a
\* blockclique entry at the slot of a final block, residue is fatal and
\* entries within the walk are not.
ResidueFatalBesideBootstrapOverlap ==
    [][(/\ WalkingUpdateStep
        /\ sequence # <<>>
           \/ DOMAIN last_update'[1] \cap DOMAIN last_update'[2].map = {}) =>
          /\ HasResidue(last_update') => status' = "panic"
          /\ (~HasResidue(last_update') /\ MetadataComplete(last_update'))
                 => status' = "ok"]_vars

\* The last call of run_task_with handed slot s to the callback.
Dispatched(s) ==
    \E i \in 1..Len(last_call.calls) : last_call.calls[i].slot = s

\* Slot s is after the candidate cursor and at or before the time cursor of
\* a sequencer that has a sequence and has had k updates.
AwaitsDispatch(s, k) ==
    /\ status = "ok"
    /\ n_updates = k
    /\ sequence # <<>>
    /\ SlotLT(latest_executed_candidate_slot, s)
    /\ SlotLE(s, get_time_cursor(now))

\* C22: time-driven dispatch liveness.  A slot after the candidate cursor and
\* at or before the time cursor is dispatched unless an update comes first,
\* and the calls of run_task_with come to return None for good.
C22_TimeDrivenDispatch ==
    /\ \A s \in AllSlots, k \in 0..MaxUpdates :
           AwaitsDispatch(s, k) ~> (Dispatched(s) \/ n_updates # k \/ status # "ok")
    /\ <>[](status = "ok" =>
               ~is_task_available(sequence, latest_executed_final_slot,
                                  latest_executed_candidate_slot, now))

\* The part of C22 that the code keeps: a slot that waits while the candidate
\* cursor is at or after the final cursor is dispatched unless an update
\* comes first.
DispatchFromOrderedCursors ==
    \A s \in AllSlots, k \in 0..MaxUpdates :
        (/\ AwaitsDispatch(s, k)
         /\ SlotLE(latest_executed_final_slot, latest_executed_candidate_slot))
            ~> (Dispatched(s) \/ n_updates # k \/ status # "ok")

\* The other part: the calls of run_task_with come to return None for good.
DispatchComesToAnEnd ==
    <>[](status = "ok" =>
            ~is_task_available(sequence, latest_executed_final_slot,
                               latest_executed_candidate_slot, now))

SentIds(b, p) ==
    UNION {{b.to[p].sends[i].ids[j] : j \in DOMAIN b.to[p].sends[i].ids} :
               i \in DOMAIN b.to[p].sends}

\* The prefix of the i-th id of list ids is still in an LRU cache after the
\* prefixes of the whole list have been inserted in order.
StillCached(ids, i) ==
    Cardinality({prefix(ids[j]) : j \in (i + 1)..Len(ids)} \ {prefix(ids[i])})
        < max_node_known_ops_size

\* C24: in a step of the thread that announces, no id whose prefix was in the
\* cache of a peer that stays connected is selected for or sent to that peer
\* in the first burst, every id sent is one selected, and after the step the
\* cache of each peer of the last burst holds the prefix of every id selected
\* for it (up to the capacity of the LRU, the latest first), whatever the
\* sends returned.
C24_AnnouncementDedup ==
    [][announcements' # <<>> =>
          LET first == announcements'[1]
              last == announcements'[Len(announcements')]
          IN  /\ \A p \in DOMAIN first.to :
                     /\ SentIds(first, p) \subseteq Range(first.to[p].new_ops)
                     /\ p \in DOMAIN cache.ops_known_by_peer =>
                            \A id \in Range(first.to[p].new_ops) :
                                ~lru_peek(cache.ops_known_by_peer[p], prefix(id))
              /\ \A p \in DOMAIN last.to :
                     \A i \in DOMAIN last.to[p].new_ops :
                         StillCached(last.to[p].new_ops, i) =>
                             lru_peek(cache'.ops_known_by_peer[p],
                                      prefix(last.to[p].new_ops[i]))]_vars

\* C24 witness: a burst in which a peer was left out one id of the batch, its
\* prefix being known, and the send of the other id failed.
C24_Witness ==
    /\ announcements # <<>>
    /\ \E p \in DOMAIN announcements[1].to :
           /\ Len(announcements[1].operation_ids) = 2
           /\ Len(announcements[1].to[p].new_ops) = 1
           /\ announcements[1].to[p].sends[1].result # SendOk
           /\ lru_peek(cache.ops_known_by_peer[p],
                       prefix(announcements[1].to[p].new_ops[1]))

\* A peer that a send found disconnected is not among the connections.
GoneIsGone == Gone(announcements) \cap active_connections = {}

\* The ids of the groups held in stored_for_propagation.
RetainedIds(stored) == UNION {stored[i].ops : i \in DOMAIN stored}

\* C25: every id of a group held in stored_for_propagation is referenced by
\* op_storage.
C25_RetainedStayServable ==
    RetainedIds(propagation_thread.stored_for_propagation)
        \subseteq propagation_thread.op_storage

\* What holds instead: op_storage references only ids of the groups held, and
\* every id of a held group that is in no group evicted since.
StorageWithinRetained ==
    propagation_thread.op_storage
        \subseteq RetainedIds(propagation_thread.stored_for_propagation)

\* The step is a turn of the loop of run that takes a PropagateOperations
\* command from the channel.
ProcessedPropagateOperations ==
    /\ propagation_thread.running
    /\ propagation_thread.internal_receiver.queue # <<>>
    /\ Head(propagation_thread.internal_receiver.queue).cmd = "PropagateOperations"
    /\ propagation_thread'.internal_receiver.queue =
           Tail(propagation_thread.internal_receiver.queue)

\* List short is what is left of list long once groups have been popped from
\* its front.
IsSuffix(short, long) ==
    /\ Len(short) <= Len(long)
    /\ short = SubSeq(long, Len(long) - Len(short) + 1, Len(long))

\* C26: once a PropagateOperations command has been processed, no group held
\* is older than max_operations_propagation_time and the groups hold at most
\* max_ops_kept_for_propagation ids in all; the groups held are those held
\* before and the new one, less some whole groups taken from the front; no
\* other step changes the groups held.
C26_RetentionBound ==
    [][IF ProcessedPropagateOperations
       THEN LET stored == propagation_thread'.stored_for_propagation
                pushed == Append(propagation_thread.stored_for_propagation,
                              [t |-> instant,
                               ops |-> Head(propagation_thread.internal_receiver.queue).operations])
            IN  /\ \A i \in DOMAIN stored :
                       instant' - stored[i].t <= max_operations_propagation_time
                /\ total_ops(stored) <= max_ops_kept_for_propagation
                /\ IsSuffix(stored, pushed)
       ELSE propagation_thread'.stored_for_propagation =
                propagation_thread.stored_for_propagation]_vars

\* C26 witness: two commands have been processed at instant 0 and the group
\* of the first has been evicted, the two having held four ids.
C26_Witness ==
    /\ propagation_thread.running
    /\ propagation_thread.internal_receiver.sent = 2
    /\ propagation_thread.internal_receiver.queue = <<>>
    /\ instant = 0
    /\ Len(propagation_thread.stored_for_propagation) = 1
    /\ Cardinality(propagation_thread.stored_for_propagation[1].ops) = 2

\* The results of the sends made to peer p in burst b.
SendsOf(b, p) == b.to[p].sends

\* Peer p was sent every chunk of what was selected for it in burst b.
FullyAnnounced(b, p) ==
    /\ Len(SendsOf(b, p)) = NChunks(Len(b.to[p].new_ops))
    /\ SentIds(b, p) = Range(b.to[p].new_ops)

\* C27: in every burst, a send that returns PeerDisconnected is the last one
\* made to its peer, and every peer that got no PeerDisconnected is sent all
\* the chunks of what was selected for it; the peer found disconnected still
\* has its cache entry after the announce_ops call, and a cache entry only
\* goes away in a step that runs announce_ops on a non-empty batch.
C27_DisconnectionDuringAnnouncement ==
    [][/\ \A k \in DOMAIN announcements' :
              \A p \in DOMAIN announcements'[k].to :
                  LET sends == SendsOf(announcements'[k], p)
                  IN  /\ \A i \in DOMAIN sends :
                             sends[i].result = PeerDisconnected => i = Len(sends)
                      /\ p \notin Gone(<<announcements'[k]>>) =>
                             FullyAnnounced(announcements'[k], p)
       /\ announcements' # <<>> =>
              Gone(<<announcements'[Len(announcements')]>>)
                  \subseteq DOMAIN cache'.ops_known_by_peer
       /\ DOMAIN cache.ops_known_by_peer \subseteq DOMAIN cache'.ops_known_by_peer
              \/ announcements' # <<>>]_vars

\* C27 witness: a burst in which the first of two chunks for one peer found it
\* disconnected, and another peer was sent its chunks.
C27_Witness ==
    /\ announcements # <<>>
    /\ \E p, q \in DOMAIN announcements[1].to :
           /\ p # q
           /\ Len(announcements[1].to[p].new_ops) = 2
           /\ Len(SendsOf(announcements[1], p)) = 1
           /\ SendsOf(announcements[1], p)[1].result = PeerDisconnected
           /\ announcements[1].to[q].new_ops # <<>>
           /\ FullyAnnounced(announcements[1], q)
           /\ p \in DOMAIN cache.ops_known_by_peer
           /\ p \notin active_connections

\* C28: in every burst, a send that returns SendError is the last one made to
\* its peer.
C28_SendErrorSkipsPeer ==
    [][\A k \in DOMAIN announcements' :
           \A p \in DOMAIN announcements'[k].to :
               \A i \in DOMAIN SendsOf(announcements'[k], p) :
                   SendsOf(announcements'[k], p)[i].result = SendError =>
                       i = Len(SendsOf(announcements'[k], p))]_vars

\* The thread takes Stop from the channel, or finds the channel empty with
\* every sender dropped, in this step.
ObservesShutdown ==
    /\ propagation_thread.running
    /\ \/ /\ propagation_thread.internal_receiver.queue # <<>>
          /\ Head(propagation_thread.internal_receiver.queue).cmd = "Stop"
          /\ propagation_thread'.internal_receiver.queue =
                 Tail(propagation_thread.internal_receiver.queue)
       \/ /\ propagation_thread.internal_receiver.queue = <<>>
          /\ propagation_thread.internal_receiver.disconnected
          /\ propagation_thread' # propagation_thread

\* The thread and the cache are as they were, but for commands put on the
\* channel and senders dropped.
ThreadAtRest ==
    /\ propagation_thread'.next_batch = propagation_thread.next_batch
    /\ propagation_thread'.stored_for_propagation =
           propagation_thread.stored_for_propagation
    /\ propagation_thread'.op_storage = propagation_thread.op_storage
    /\ cache' = cache
    /\ announcements' = <<>>

\* C29: the step in which the thread takes Stop or finds the channel
\* disconnected ends the loop, sends nothing and leaves next_batch as it is;
\* once the loop has ended it stays ended, nothing is sent, next_batch is
\* kept and no command is taken from the channel.
C29_PropagationShutdown ==
    [][/\ ObservesShutdown => ~propagation_thread'.running /\ ThreadAtRest
       /\ ~propagation_thread.running =>
              /\ ~propagation_thread'.running
              /\ ThreadAtRest
              /\ Len(propagation_thread.internal_receiver.queue)
                     <= Len(propagation_thread'.internal_receiver.queue)
              /\ SubSeq(propagation_thread'.internal_receiver.queue, 1,
                        Len(propagation_thread.internal_receiver.queue))
                     = propagation_thread.internal_receiver.queue]_vars

\* C29 witness: the loop has ended with ids pending in next_batch, the
\* announcement deadline has passed with a peer connected.
C29_Witness ==
    /\ ~propagation_thread.running
    /\ propagation_thread.next_batch # {}
    /\ instant >= propagation_thread.batch_deadline
    /\ active_connections # {}

\* A command is left on the channel of a thread whose loop has ended.
CommandLeftBehind ==
    /\ ~propagation_thread.running
    /\ propagation_thread.internal_receiver.queue # <<>>

(***************************************************************************)
(* Properties of slot_tick.                                                *)
(***************************************************************************)
\* The blocks that wait for a slot that has come at current_slot.
DueBlocks(cs, current_slot) ==
    {b \in DOMAIN cs.blocks_state :
         /\ cs.blocks_state[b].status = "WaitingForSlot"
         /\ SlotLE(cs.blocks_state[b].slot, current_slot)}

\* C30: a tick hands to rec_process each block that waits for a slot not
\* after current_slot, once, with its slot, and no other block, in ascending
\* order of (slot, block id); when rec_process returns an error, slot_tick
\* returns it and neither stats_tick nor block_db_changed is run.
C30_SlotTick ==
    [][tick_outcome' # tick_outcome =>
          LET o == tick_outcome'[1]
              due == DueBlocks(consensus_state, o.current_slot)
          IN  /\ {o.to_process[i][2] : i \in DOMAIN o.to_process} = due
              /\ Len(o.to_process) = Cardinality(due)
              /\ \A i \in DOMAIN o.to_process :
                     o.to_process[i][1] =
                         consensus_state.blocks_state[o.to_process[i][2]].slot
              /\ \A i, j \in DOMAIN o.to_process :
                     i < j => SlotIdLT(o.to_process[i], o.to_process[j])
              /\ o.result = "rec_process" <=> ~o.stats_tick
              /\ ~o.stats_tick => ~o.block_db_changed]_vars

\* C30 witness: a tick whose re-processing failed has handed over two blocks,
\* the one with the greater id first as its slot is earlier, and the graph
\* holds a third block, which waits for a slot after current_slot.
C30_Witness ==
    /\ tick_outcome # <<>>
    /\ tick_outcome[1].result = "rec_process"
    /\ Len(tick_outcome[1].to_process) = 2
    /\ tick_outcome[1].to_process[1][2] > tick_outcome[1].to_process[2][2]
    /\ \E b \in DOMAIN consensus_state.blocks_state :
           /\ consensus_state.blocks_state[b].status = "WaitingForSlot"
           /\ SlotLT(tick_outcome[1].current_slot, consensus_state.blocks_state[b].slot)

(***************************************************************************)
(* Properties of the message codecs.                                       *)
(***************************************************************************)
\* The bound that the deserializer with limits args puts on the list of the
\* message.
ListBound(codec, message, args) ==
    IF codec = "block"
    THEN args.max_operations_per_block
    ELSE IF message.type = "Operations"
         THEN args.max_operations
         ELSE args.max_operations_prefix_ids

TwoIdsOverLimit ==
    /\ codec_call # <<>>
    /\ codec_call[1].call = "round trip"
    /\ codec_call[1].message.type = "DataRequest"
    /\ Len(codec_call[1].message.list) = 2
    /\ codec_call[1].args.max_operations_per_block = 1
    /\ ~codec_call[1].result.ok

\* The number a serializer writes first for a message of the codec.
TagOf(codec, message) ==
    IF codec = "block"
    THEN BlockMessageTypeId[message.type]
    ELSE OperationMessageTypeId[message.type]

\* C32: a message is serialized with the tag of its type (0, 1 or 2) first;
\* a frame with another message tag is refused by both deserializers; in a
\* block DataRequest or DataResponse an info tag above 3 is refused; the info
\* tag 3 is refused in a DataRequest and is read in a DataResponse as
\* NotFound, nothing after it being taken as its payload.
C32_TagValidation ==
    \A k \in DOMAIN codec_call :
        LET c == codec_call[k]
            tag == c.buffer[1]
        IN  /\ c.call = "round trip" =>
                   tag = TagOf(c.codec, c.message) /\ tag \in {0, 1, 2}
            /\ c.call = "frame" =>
                   /\ tag \notin {0, 1, 2} => ~c.result.ok
                   /\ (c.codec = "block" /\ tag \in {1, 2}) =>
                          /\ c.buffer[4] > 3 => ~c.result.ok
                          /\ (tag = 1 /\ c.buffer[4] = 3) => ~c.result.ok
                          /\ (tag = 2 /\ c.buffer[4] = 3) =>
                                 /\ c.result.ok
                                 /\ c.result.value =
                                        Message("DataResponse", c.buffer[3],
                                                "NotFound", 0, <<>>)
                                 /\ c.result.rest = SubSeq(c.buffer, 5, Len(c.buffer))

\* C32 witness: the frame of a DataRequest for a header, with its message tag
\* made 2 and its info tag made 3, has been read as a DataResponse NotFound.
C32_Witness ==
    /\ codec_call # <<>>
    /\ codec_call[1].call = "frame"
    /\ codec_call[1].message.type = "DataRequest"
    /\ codec_call[1].buffer[1] = 2
    /\ codec_call[1].buffer[4] = 3
    /\ codec_call[1].result.ok
    /\ codec_call[1].result.value.info = "NotFound"
    /\ codec_call[1].result.rest = <<>>

\* A frame with message tag 3 has been refused by the operation codec, and a
\* DataRequest with info tag 3 by the block codec.
UnknownTagRefused ==
    /\ codec_call # <<>>
    /\ codec_call[1].call = "frame"
    /\ ~codec_call[1].result.ok
    /\ \/ codec_call[1].codec = "operation" /\ codec_call[1].buffer[1] = 3
       \/ /\ codec_call[1].codec = "block"
          /\ codec_call[1].buffer[1] = 1
          /\ codec_call[1].buffer[4] = 3

(***************************************************************************)
(* Properties of the address parser.                                       *)
(***************************************************************************)
\* The string is "A", then "U" or "S", then the base58check of the version 0
\* and a hash of HASH_SIZE_BYTES bytes.
WellFormedAddress(s) ==
    \E t \in {"U", "S"}, hash \in [1..HASH_SIZE_BYTES -> AddressBytes] :
        s = <<ADDRESS_PREFIX, t>> \o
                bs58_encode_with_check(u64_varint_serialize(0) \o hash)

\* C33: from_str accepts the well-formed strings and no other, gives User for
\* "U" and SC for "S", to_string of the result is the string, and every other
\* string gets an AddressParseError.
C33_AddressParsing ==
    \A k \in DOMAIN address_call :
        LET c == address_call[k]
        IN  IF WellFormedAddress(c.s)
            THEN /\ c.result.ok
                 /\ c.result.variant = (IF c.s[2] = "U" THEN "User" ELSE "SC")
                 /\ to_string(c.result) = c.s
            ELSE ~c.result.ok /\ c.result.error = "AddressParseError"

\* What holds instead: the same, but a string whose payload has the version 0
\* and then not exactly HASH_SIZE_BYTES bytes gets a BufferError.
AddressParsingButForLength ==
    \A k \in DOMAIN address_call :
        LET c == address_call[k]
            body == bs58_decode_with_check(SubSeq(c.s, 3, Len(c.s)))
            wrong_length == /\ Len(c.s) >= 2
                            /\ c.s[1] = ADDRESS_PREFIX
                            /\ c.s[2] \in {"U", "S"}
                            /\ body.ok
                            /\ body.value # <<>>
                            /\ body.value[1] = 0
                            /\ Len(body.value) # 1 + HASH_SIZE_BYTES
        IN  IF WellFormedAddress(c.s)
            THEN /\ c.result.ok
                 /\ c.result.variant = (IF c.s[2] = "U" THEN "User" ELSE "SC")
                 /\ to_string(c.result) = c.s
            ELSE /\ ~c.result.ok
                 /\ c.result.error =
                        (IF wrong_length THEN "BufferError" ELSE "AddressParseError")

(***************************************************************************)
(* Properties of the finalisation of slots and of the walk of update.      *)
(***************************************************************************)
\* The step is an incremental update, its arguments kept, that returned.
RecordedIncrementalStep ==
    /\ RecordedUpdateStep
    /\ sequence # <<>>
    /\ status' = "ok"

\* Slot s is in the sequence, not consensus-final, and the watermarks the
\* step leaves make it consensus-final.
BecomesFinal(s) ==
    /\ get_slot(sequence, s) # <<>>
    /\ ~get_slot(sequence, s)[1].consensus_final
    /\ new_consensus_final(latest_consensus_final_slots', s)

\* The final block the arguments of the step give for slot s, if any.
NewFinalBlock(s) ==
    IF s \in DOMAIN last_update'[1] THEN last_update'[1][s] ELSE NoBlock

\* The slots at or before the candidate cursor that the step overwrites.
OverwrittenExecuted ==
    {x \in last_call'.overwritten : SlotLE(x, latest_executed_candidate_slot)}

SkippedByFinality ==
    /\ status = "ok"
    /\ n_updates = 2
    /\ last_update # NoInput
    /\ last_call.overwritten = DOMAIN last_update[1]
    /\ \E i \in 1..Len(sequence) :
           /\ sequence[i].consensus_final
           /\ sequence[i].content = NoBlock
           /\ \E x \in DOMAIN last_update[1] :
                  /\ x.thread = sequence[i].slot.thread
                  /\ x.period > sequence[i].slot.period
                  /\ final_blocks[x] = {last_update[1][x]}
           /\ \A x \in AllSlots :
                  (final_blocks[x] # {} /\ x \notin DOMAIN last_update[1])
                      => x.period < sequence[i].slot.period

\* Entry i of seq and every entry before it are consensus-final.
ConsensusFinalUpTo(seq, i) == \A j \in 1..i : seq[j].consensus_final

\* C35: an entry of the sequence is execution_final if and only if it is
\* consensus_final and so is every entry before it.
C35_ExecutionFinalityCharacterisation ==
    \A i \in 1..Len(sequence) :
        sequence[i].execution_final <=> ConsensusFinalUpTo(sequence, i)

\* What the incremental path keeps: after an update of a sequence that is not
\* empty, an entry that is consensus_final, as is every entry before it, is
\* execution_final.
FinalPrefixIsExecutionFinalAfterUpdate ==
    [][IncrementalUpdateStep =>
          \A i \in 1..Len(sequence') :
              ConsensusFinalUpTo(sequence', i) => sequence'[i].execution_final]_vars

\* The slot of the last entry of a sequence that is not empty.
BackSlot(seq) == seq[Len(seq)].slot

\* C36: an update call on a sequence that is not empty leaves a sequence
\* whose back is at or after the time cursor at the time of the call.
C36_ExtensionByTime ==
    [][IncrementalUpdateStep =>
          /\ sequence' # <<>>
          /\ SlotLE(get_time_cursor(now), BackSlot(sequence'))]_vars

\* What the code keeps: the bootstrap path builds up to the time cursor, the
\* incremental path never shortens the back.
BackReachesTimeCursorAtBootstrapOnly ==
    [][(n_updates' = n_updates + 1 /\ status' = "ok" /\ sequence' # <<>>) =>
          IF sequence = <<>>
          THEN SlotLE(get_time_cursor(now), BackSlot(sequence'))
          ELSE SlotLE(BackSlot(sequence), BackSlot(sequence'))]_vars

\* Slot s is in the sequence, execution_final and after the final cursor.
AwaitsFinalExecution(s) ==
    /\ sequence # <<>>
    /\ get_slot(sequence, s) # <<>>
    /\ get_slot(sequence, s)[1].execution_final
    /\ SlotLT(latest_executed_final_slot, s)

\* C37: whenever a slot after the final cursor is in the sequence and
\* execution_final, so is the slot next to the final cursor, and calls of
\* run_task_with come to dispatch each such slot as final.
C37_FinalExecutionProgress ==
    /\ [](status = "ok" =>
             ((\E s \in AllSlots : AwaitsFinalExecution(s)) =>
                  final_task(sequence, latest_executed_final_slot)))
    /\ \A s \in AllSlots :
           (status = "ok" /\ AwaitsFinalExecution(s))
               ~> (SlotLE(s, latest_executed_final_slot) \/ status # "ok")

\* The final cursor is behind the front of a sequence whose front is
\* execution_final: no call of run_task_with can move it.
FinalCursorStuck ==
    /\ status = "ok"
    /\ sequence # <<>>
    /\ sequence[1].execution_final
    /\ SlotLT(get_next_slot(latest_executed_final_slot), sequence[1].slot)

\* What the code keeps: while the front of the sequence is at or before the
\* slot next to the final cursor, that slot is execution_final whenever a
\* later slot of the sequence is.
FinalExecutionProgressFromFront ==
    (/\ status = "ok"
     /\ sequence # <<>>
     /\ SlotLE(sequence[1].slot, get_next_slot(latest_executed_final_slot)))
        => ((\E s \in AllSlots : AwaitsFinalExecution(s)) =>
                final_task(sequence, latest_executed_final_slot))

\* No watermark of consensus finality is moved to an earlier slot, and one
\* that changes is moved to a later period of its thread.
ConsensusWatermarksMonotone ==
    [][\A t \in DOMAIN latest_consensus_final_slots :
           \/ latest_consensus_final_slots'[t] = latest_consensus_final_slots[t]
           \/ /\ latest_consensus_final_slots'[t].thread = t
              /\ latest_consensus_final_slots'[t].period >
                     latest_consensus_final_slots[t].period]_vars

\* C38: no step moves a watermark of consensus finality or
\* latest_execution_final_slot to an earlier slot.
C38_WatermarksMonotone ==
    [][/\ \A t \in DOMAIN latest_consensus_final_slots :
              SlotLE(latest_consensus_final_slots[t],
                     latest_consensus_final_slots'[t])
       /\ SlotLE(latest_execution_final_slot, latest_execution_final_slot')]_vars

RECURSIVE lockstep_walk(_, _, _)
\* The two assertions on the old sequence in the walk of update, from slot to
\* max_slot: which of them fires, if any, when nothing else stops the walk.
lockstep_walk(slot, max_slot, old) ==
    IF ~SlotLE(slot, max_slot)
    THEN IF old # <<>> THEN "unexpectedly not processed" ELSE "passed"
    ELSE IF old # <<>> /\ Head(old).slot # slot
         THEN "slot sequencing mismatch"
         ELSE lockstep_walk(get_next_slot(slot), max_slot,
                            IF old = <<>> THEN <<>> ELSE Tail(old))

\* C39: whatever the arguments of an update of a sequence that is not empty,
\* neither assertion on the old sequence fires in its walk.
C39_LockstepWalk ==
    (status = "ok" /\ sequence # <<>>) =>
        \A f \in InputMaps, bq \in InputBlockcliques :
            lockstep_walk(sequence[1].slot,
                          update_max_slot(
                              UpdateConsensusFinalSlots(
                                  latest_consensus_final_slots, f),
                              bq, sequence),
                          sequence) = "passed"

\* C39 witness: an incremental update has rebuilt a sequence of several
\* slots whose back is after every watermark, and has returned.
C39_Witness ==
    /\ status = "ok"
    /\ last_call.overwritten # {}
    /\ Len(sequence) >= 3
    /\ \A t \in DOMAIN latest_consensus_final_slots :
           SlotLT(latest_consensus_final_slots[t], BackSlot(sequence))

(***************************************************************************)
(* Properties of the flush of next_batch.                                  *)
(***************************************************************************)
\* Between commands next_batch holds fewer ids than the capacity.
BatchBelowCapacity ==
    Cardinality(propagation_thread.next_batch) <
        operation_announcement_buffer_capacity

\* C40: while the thread runs, every id put in next_batch comes to be taken
\* out of it by announce_ops, and between commands next_batch holds fewer
\* ids than operation_announcement_buffer_capacity.
C40_AnnouncementFlush ==
    /\ \A id \in OperationIds :
           (propagation_thread.running /\ id \in propagation_thread.next_batch)
               ~> (id \notin propagation_thread.next_batch
                       \/ ~propagation_thread.running)
    /\ []BatchBelowCapacity

====
